---------------------------- MODULE Spec2Model ----------------------------
(***************************************************************************)
(* Dynamic speech-mixture generation (speechbrain/processing/               *)
(* dynamic_mixing.py): the overlap mixer `mix`, the configuration           *)
(* DynamicMixingConfig and the per-request pipeline of                      *)
(* DynamicMixingDataset (generate / __postprocess__ / __getitem__).         *)
(* Beside them: the manifest reader parse_paths, the construction of the   *)
(* dataset (from_didataset / from_wavs / __init__), two requests whose      *)
(* steps interleave, and the checkpointable SaveableDataLoader              *)
(* (speechbrain/data_io/dataloader.py).                                     *)
(*                                                                         *)
(* Audio buffers are sequences of exact rationals <<n, d>> (d > 0, reduced);*)
(* amplitudes are counted in tenths, so 0.9 is 9 and 1.0 is 10.            *)
(***************************************************************************)
EXTENDS Integers, Sequences, FiniteSets, TLC

VARIABLES
    \* a call of mix on its own: its arguments and what it returned
    mix_pc, mix_src1, mix_src2, mix_overlap, mix_out,
    \* a construction of DynamicMixingConfig: its arguments and outcome
    cfg_pc, cfg_args,
    \* DynamicMixingDataset: self.config, self.spkr_files, self.noise_files,
    \* self.rir_files, self.dataset
    config, spkr_files, noise_files, rir_files, dataset,
    \* one request (__getitem__ -> generate): position and locals
    pc, mix_info, rir, sources, source_idxs, mixture, padded_sources,
    pre_gain, ret, dct,
    \* a call of parse_paths on its own: [pc, lines, replacements, out], the
    \* manifest's lines, the replacements dictionary and what it returned
    parse,
    \* a call of DynamicMixingDataset.from_didataset: [pc, items, wav_key,
    \* spkr_key, args, noise_flist, rir_flist] and what it made on the way:
    \* the spkr_files handed to the constructor (pool) and what parse_paths
    \* returned for the two lists
    build,
    \* a second request on the same dataset, between two of its steps: its
    \* position and locals [pc, mix_info, rir, sources, source_idxs, mixture,
    \* padded_sources, pre_gain, ret, dct] and which of the two it is (id)
    parked,
    \* a SaveableDataLoader and its checkpoint file: [skip_to, iterator, file,
    \* item, hist]: _speechbrain_recovery_skip_to, _speechbrain_iterator with
    \* its sampler position and _num_yielded, the text of the file, the last
    \* item yielded, and the first operations made on the loader object
    loader,
    \* a RegressionContrastiveEnhancement and the dataset it is bound to:
    \* [pc, metric, min_delta, keys_set, indexes_sorted, min_shift_left,
    \* shift_max, pairings]: the metric value of every item, the output keys
    \* being set or not, and the attributes bind makes; pairings[i] is the
    \* position of the item paired with item i
    pairing,
    \* a SynonymDictionary: [word_map, op, result]: self.word_map, the last
    \* method called and what it returned
    synonyms

mixVars == <<mix_pc, mix_src1, mix_src2, mix_overlap, mix_out>>

cfgVars == <<cfg_pc, cfg_args>>

selfVars == <<config, spkr_files, noise_files, rir_files, dataset>>

callVars == <<pc, mix_info, rir, sources, source_idxs, mixture,
              padded_sources, pre_gain, ret, dct>>

otherVars == <<parse, build, parked, loader, pairing, synonyms>>

vars == <<mixVars, cfgVars, selfVars, callVars, otherVars>>

\* -------------------------------------------------------------------------
\* Bounds of the model
\* -------------------------------------------------------------------------
\* longest buffer handed to mix when it is exercised on its own
MaxMixLen == 3
\* largest |overlap_samples| handed to mix when it is exercised on its own
MaxOverlap == 4

\* -------------------------------------------------------------------------
\* Exact arithmetic on samples
\* -------------------------------------------------------------------------
Abs(x) == IF x < 0 THEN -x ELSE x

Min2(a, b) == IF a <= b THEN a ELSE b

Max2(a, b) == IF a >= b THEN a ELSE b

RECURSIVE GCD(_, _)
GCD(a, b) == IF b = 0 THEN a ELSE GCD(b, a % b)

\* the rational n/d in lowest terms with a positive denominator
Rat(n, d) ==
    LET s == IF d < 0 THEN -1 ELSE 1
        g == GCD(Abs(n), Abs(d))
    IN  <<(s * n) \div g, (s * d) \div g>>

RInt(n) == <<n, 1>>

RZero == <<0, 1>>

RAdd(x, y) == Rat(x[1] * y[2] + y[1] * x[2], x[2] * y[2])

RMul(x, y) == Rat(x[1] * y[1], x[2] * y[2])

RDiv(x, y) == Rat(x[1] * y[2], x[2] * y[1])

RAbs(x) == <<Abs(x[1]), x[2]>>

RLeq(x, y) == x[1] * y[2] <= y[1] * x[2]

RLess(x, y) == x[1] * y[2] < y[1] * x[2]

\* torch.zeros(n)
Zeros(n) == [i \in 1..n |-> RZero]

\* gain * tensor
Scale(g, buf) == [i \in 1..Len(buf) |-> RMul(g, buf[i])]

\* tensor.abs().max() (0 stands for the empty tensor, which raises)
Peak(buf) ==
    LET mags == {RAbs(buf[i]) : i \in 1..Len(buf)}
    IN  IF mags = {} THEN RZero
        ELSE CHOOSE m \in mags : \A x \in mags : RLeq(x, m)

IsSilent(buf) == \A i \in 1..Len(buf) : buf[i] = RZero

\* -------------------------------------------------------------------------
\* mix and __pad_sources__
\* -------------------------------------------------------------------------
\* one (lpad, rpad) applied to one source; torch.zeros rejects a negative size
PadOne(src, pad) == Zeros(pad[1]) \o src \o Zeros(pad[2])

\* __pad_sources__: zip stops at the shorter of the two lists
PadSources(srcs, paddings) ==
    [k \in 1..Min2(Len(srcs), Len(paddings)) |-> PadOne(srcs[k], paddings[k])]

PadsValid(paddings) ==
    \A k \in 1..Len(paddings) : paddings[k][1] >= 0 /\ paddings[k][2] >= 0

\* np.random.choice(range(n_diff)).item() if n_diff > 0 else 0
LpadChoices(n_diff) == IF n_diff > 0 THEN 0..(n_diff - 1) ELSE {0}

FullOverlapPaddingsNoRpad(n_diff, lpad) == <<<<lpad, 0>>, <<0, 0>>>>

\* full overlap: the shorter source lies inside the longer one
FullOverlapPaddings(n_diff, lpad) ==
    LET rpad == n_diff - lpad
    IN  <<<<lpad, rpad>>, <<0, 0>>>>

PartialOverlapPaddingsNoSubtract(n_long, n_short, overlap_samples, start_short) ==
    LET n_total == n_long + n_short
    IN  IF start_short
        THEN <<<<0, n_total - n_short>>, <<n_total - n_long, 0>>>>
        ELSE <<<<n_total - n_short, 0>>, <<0, n_total - n_long>>>>

PartialOverlapPaddingsOneLess(n_long, n_short, overlap_samples, start_short) ==
    LET n_total == n_long + n_short - overlap_samples + 1
    IN  IF start_short
        THEN <<<<0, n_total - n_short>>, <<n_total - n_long, 0>>>>
        ELSE <<<<n_total - n_short, 0>>, <<0, n_total - n_long>>>>

\* partial overlap
PartialOverlapPaddings(n_long, n_short, overlap_samples, start_short) ==
    LET n_total == n_long + n_short - overlap_samples
    IN  IF start_short
        THEN <<<<0, n_total - n_short>>, <<n_total - n_long, 0>>>>
        ELSE <<<<n_total - n_short, 0>>, <<0, n_total - n_long>>>>

NoOverlapPaddingsNoSilence(n_long, n_short, overlap_samples, start_short) ==
    IF start_short
    THEN <<<<0, n_long>>, <<n_short, 0>>>>
    ELSE <<<<n_long, 0>>, <<0, n_short>>>>

\* no overlap: |overlap_samples| samples of silence between the two
NoOverlapPaddings(n_long, n_short, overlap_samples, start_short) ==
    LET sil_between == Abs(overlap_samples)
    IN  IF start_short
        THEN <<<<0, sil_between + n_long>>, <<sil_between + n_short, 0>>>>
        ELSE <<<<sil_between + n_long, 0>>, <<0, sil_between + n_short>>>>

\* the paddings of (shorter_src, longer_src), in that order
MixPaddings(n_long, n_short, n_diff, overlap_samples, lpad, start_short) ==
    IF overlap_samples >= n_short
    THEN FullOverlapPaddings(n_diff, lpad)
    ELSE IF overlap_samples > 0
         THEN PartialOverlapPaddings(n_long, n_short, overlap_samples, start_short)
         ELSE NoOverlapPaddings(n_long, n_short, overlap_samples, start_short)

Reverse(s) == [k \in 1..Len(s) |-> s[Len(s) + 1 - k]]

\* torch.stack((src2, src1)) if swapped else torch.stack((src1, src2)):
\* padded arrives as (shorter, longer) and leaves in argument order
StackSources(padded, swapped) == IF swapped THEN Reverse(padded) ELSE padded

ReturnedPaddingsNoReverse(paddings, swapped) == paddings

\* if swapped: paddings.reverse()
ReturnedPaddings(paddings, swapped) ==
    IF swapped THEN Reverse(paddings) ELSE paddings

SumRowsFirstOnly(rows) == rows[1]

\* torch.sum(sources, dim=0) of two stacked rows of equal length
SumRows(rows) == [i \in 1..Len(rows[1]) |-> RAdd(rows[1][i], rows[2][i])]

\* mix(src1, src2, overlap_samples) with its random draws lpad and start_short.
\* ok is FALSE when the call raises (a negative pad size, or torch.stack on
\* rows of different length).
Mix(src1, src2, overlap_samples, lpad, start_short) ==
    LET n_diff0     == Len(src1) - Len(src2)
        swapped     == n_diff0 >= 0
        longer_src  == IF swapped THEN src1 ELSE src2
        shorter_src == IF swapped THEN src2 ELSE src1
        n_diff      == Abs(n_diff0)
        n_long      == Len(longer_src)
        n_short     == Len(shorter_src)
        paddings    == MixPaddings(n_long, n_short, n_diff, overlap_samples,
                                   lpad, start_short)
        valid       == PadsValid(paddings)
        padded      == IF valid THEN PadSources(<<shorter_src, longer_src>>, paddings)
                       ELSE <<<<>>, <<>>>>
        stacked     == StackSources(padded, swapped)
        ok          == valid /\ Len(stacked[1]) = Len(stacked[2])
    IN  [ok       |-> ok,
         mixture  |-> IF ok THEN SumRows(stacked) ELSE <<>>,
         sources  |-> stacked,
         paddings |-> ReturnedPaddings(paddings, swapped)]

\* -------------------------------------------------------------------------
\* DynamicMixingConfig
\* -------------------------------------------------------------------------
\* constructor arguments: None, a scalar, or a list
NoneArg == [tag |-> "None", v |-> <<>>]

IntArg(k) == [tag |-> "int", v |-> <<k>>]

RealArg(r) == [tag |-> "real", v |-> <<r>>]

ListArg(s) == [tag |-> "list", v |-> s]

\* audio_max_amp, in tenths
AudioMaxAmp == 9

\* np.max(np.abs(signal)) >= 1 in normalize, in tenths
ClipAmp == 10

\* sample_rate, and the rate of the files of the pool
SampleRate == 16000

\* audio_min_loudness and audio_max_loudness, noise_min_loudness and
\* noise_max_loudness (dB)
AudioMinLoudness == -33

AudioMaxLoudness == -25

NoiseMinLoudness == -33

NoiseMaxLoudness == -43

\* the fields that __post_init__ leaves as they were given
PlainFields(audio_norm, noise_add, white_noise_add, rir_add, min_len, max_len) ==
    [audio_norm      |-> audio_norm,
     audio_max_amp   |-> RInt(AudioMaxAmp),
     noise_add       |-> noise_add,
     noise_prob      |-> Rat(1, 2),
     white_noise_add |-> white_noise_add,
     rir_add         |-> rir_add,
     rir_prob        |-> Rat(1, 2),
     sample_rate     |-> SampleRate,
     min_source_len  |-> min_len,
     max_source_len  |-> max_len]

UniformOneMore(xs) == [i \in 1..Len(xs) |-> Rat(1, Len(xs) + 1)]

\* [1 / len(xs) for _ in range(len(xs))]
Uniform(xs) == [i \in 1..Len(xs) |-> Rat(1, Len(xs))]

PostInitNoAsserts(args) ==
    LET num_spkrs     == IF args.num_spkrs.tag = "int"
                         THEN <<args.num_spkrs.v[1]>> ELSE args.num_spkrs.v
        overlap_ratio == IF args.overlap_ratio.tag = "real"
                         THEN <<args.overlap_ratio.v[1]>> ELSE args.overlap_ratio.v
        num_spkrs_prob == IF args.num_spkrs_prob.tag = "None"
                          THEN Uniform(num_spkrs) ELSE args.num_spkrs_prob.v
        overlap_prob   == IF args.overlap_prob.tag = "None"
                          THEN Uniform(overlap_ratio) ELSE args.overlap_prob.v
    IN  [ok |-> TRUE,
         config |-> [num_spkrs      |-> num_spkrs,
                     num_spkrs_prob |-> num_spkrs_prob,
                     overlap_ratio  |-> overlap_ratio,
                     overlap_prob   |-> overlap_prob,
                     plain          |-> args.plain]]

\* DynamicMixingConfig.__post_init__: ok is FALSE when an assert fails.
\* A scalar argument is held as the one-element list it is turned into.
PostInit(args) ==
    LET num_spkrs     == IF args.num_spkrs.tag = "int"
                         THEN <<args.num_spkrs.v[1]>> ELSE args.num_spkrs.v
        overlap_ratio == IF args.overlap_ratio.tag = "real"
                         THEN <<args.overlap_ratio.v[1]>> ELSE args.overlap_ratio.v
        num_spkrs_prob == IF args.num_spkrs_prob.tag = "None"
                          THEN Uniform(num_spkrs) ELSE args.num_spkrs_prob.v
        overlap_prob   == IF args.overlap_prob.tag = "None"
                          THEN Uniform(overlap_ratio) ELSE args.overlap_prob.v
    IN  [ok |-> /\ Len(num_spkrs) = Len(num_spkrs_prob)
                /\ Len(overlap_ratio) = Len(overlap_prob),
         config |-> [num_spkrs      |-> num_spkrs,
                     num_spkrs_prob |-> num_spkrs_prob,
                     overlap_ratio  |-> overlap_ratio,
                     overlap_prob   |-> overlap_prob,
                     plain          |-> args.plain]]

\* no config object
NoConfig ==
    [num_spkrs |-> <<>>, num_spkrs_prob |-> <<>>, overlap_ratio |-> <<>>,
     overlap_prob |-> <<>>,
     plain |-> PlainFields(FALSE, FALSE, FALSE, FALSE, 0, 0)]

\* the arguments DynamicMixingConfig is constructed with
NumSpkrsArgs ==
    {IntArg(2), ListArg(<<>>), ListArg(<<1>>), ListArg(<<1, 2>>),
     ListArg(<<0, 1, 2, 3>>)}

ProbArgs ==
    {NoneArg, ListArg(<<>>), ListArg(<<RInt(1)>>),
     ListArg(<<Rat(1, 2), Rat(1, 2)>>), ListArg(<<Rat(1, 4), Rat(3, 4)>>),
     ListArg(<<Rat(1, 4), Rat(1, 4), Rat(1, 4), Rat(1, 4)>>),
     ListArg(<<Rat(1, 4), Rat(1, 4)>>), ListArg(<<Rat(3, 2), Rat(-1, 2)>>)}

OverlapRatioArgs ==
    {RealArg(RInt(1)), ListArg(<<>>), ListArg(<<RInt(0), Rat(1, 2)>>),
     ListArg(<<Rat(-1, 2), Rat(1, 2), RInt(1)>>)}

OverlapProbArgs ==
    {NoneArg, ListArg(<<RInt(1)>>), ListArg(<<Rat(1, 2), Rat(1, 2)>>),
     ListArg(<<Rat(1, 3), Rat(1, 3), Rat(1, 3)>>),
     ListArg(<<Rat(1, 2), Rat(1, 4)>>), ListArg(<<Rat(3, 2), Rat(-1, 2)>>)}

ConfigArgs ==
    [num_spkrs      : NumSpkrsArgs,
     num_spkrs_prob : ProbArgs,
     overlap_ratio  : OverlapRatioArgs,
     overlap_prob   : OverlapProbArgs,
     plain          : {PlainFields(TRUE, FALSE, TRUE, FALSE, 1, 2)}]

NoArgs ==
    [num_spkrs |-> NoneArg, num_spkrs_prob |-> NoneArg,
     overlap_ratio |-> NoneArg, overlap_prob |-> NoneArg,
     plain |-> PlainFields(FALSE, FALSE, FALSE, FALSE, 0, 0)]


\* -------------------------------------------------------------------------
\* The files and the pool of the dataset under check
\* -------------------------------------------------------------------------
\* longest length random.randint(min_source_len, max_source_len) may draw
MaxSourceLen == 2

\* channel 0 of torchaudio.load(file), in tenths
FileAudio(file) ==
    CASE file = "a1.wav" -> <<RInt(4), RInt(-2), RInt(3)>>
      [] file = "a2.wav" -> <<RInt(1), RInt(1)>>
      [] file = "b.wav"  -> <<RInt(6), RInt(5)>>
      [] file = "c.wav"  -> <<RInt(-7)>>
      [] file = "n.wav"  -> <<RInt(2), RInt(-1)>>
      [] file = "r.wav"  -> <<RInt(1), Rat(1, 2)>>
      [] OTHER           -> <<RInt(1)>>

\* the rate torchaudio.load reports for the file
FileRate(file) ==
    IF file \in {"a2.wav", "r8k.wav", "n8k.wav"} THEN SampleRate \div 2 ELSE SampleRate

\* spkr_files: speaker -> list of (file, index in the bound dataset)
PoolFiles ==
    [spk1 |-> <<<<"a1.wav", 0>>, <<"a2.wav", 1>>>>,
     spk2 |-> <<<<"b.wav", 2>>>>,
     spk3 |-> <<<<"c.wav", 3>>>>]

\* self.spkr_names: the keys in insertion order
SpkrNames == <<"spk1", "spk2", "spk3">>

\* the dataset bound with set_dataset (by from_didataset)
BoundDataset ==
    [bound |-> TRUE,
     items |-> <<[wav_file |-> "a1.wav", spkr |-> "spk1"],
                 [wav_file |-> "a2.wav", spkr |-> "spk1"],
                 [wav_file |-> "b.wav", spkr |-> "spk2"],
                 [wav_file |-> "c.wav", spkr |-> "spk3"]>>]

NoDataset == [bound |-> FALSE, items |-> <<>>]

\* self.spkr_names of a dataset built on the pool `files`
SpkrNamesOf(files) == SelectSeq(SpkrNames, LAMBDA n : n \in DOMAIN files)

\* self.orig_sr: the rate of the first file of the first speaker
OrigSr(files) == FileRate(files[SpkrNamesOf(files)[1]][1][1])

\* the configurations the dataset is built with: every speaker count with
\* raw sources and dither; and conditioned sources (loudness, reverberation)
\* with background noise
GenerateArgs ==
    {[num_spkrs      |-> ListArg(<<0, 1, 2, 3>>),
      num_spkrs_prob |-> NoneArg,
      overlap_ratio  |-> ListArg(<<Rat(-1, 2), Rat(1, 2), RInt(1)>>),
      overlap_prob   |-> NoneArg,
      plain          |-> PlainFields(FALSE, FALSE, TRUE, FALSE, 1, MaxSourceLen)],
     [num_spkrs      |-> ListArg(<<0, 1, 2>>),
      num_spkrs_prob |-> NoneArg,
      overlap_ratio  |-> ListArg(<<Rat(1, 2), RInt(1)>>),
      overlap_prob   |-> NoneArg,
      plain          |-> PlainFields(TRUE, TRUE, TRUE, TRUE, 1, MaxSourceLen)]}

\* -------------------------------------------------------------------------
\* Random draws
\* -------------------------------------------------------------------------
\* np.random.choice(values, p=probs): the entries of positive probability
Support(values, probs) ==
    {values[i] : i \in {j \in 1..Min2(Len(values), Len(probs)) : probs[j][1] > 0}}

\* random.uniform(0, 1) < prob
Bernoulli(prob) ==
    {b \in BOOLEAN : (b => RLess(RZero, prob)) /\ (~b => RLess(prob, RInt(1)))}

\* flag and random.uniform(0, 1) < prob
Sampled(flag, prob) == IF flag THEN Bernoulli(prob) ELSE {FALSE}

\* random.uniform(lo, hi), at its two ends
UniformEnds(lo, hi) == {lo, hi}

\* np.random.choice(names, n, replace=False, p=weights): n distinct names,
\* in the order drawn
OrderedSamples(names, n) ==
    {s \in [1..n -> {names[i] : i \in 1..Len(names)}] :
        \A i, j \in 1..n : i # j => s[i] # s[j]}

\* np.random.normal(mu, var, size=n): two of its outcomes
WhiteNoise(kind, n) ==
    [i \in 1..n |-> IF kind = 0 THEN RZero
                    ELSE Rat(IF i % 2 = 1 THEN 1 ELSE -1, 100)]

\* int(x) of a rational: truncation towards zero
TruncRat(x) == IF x[1] >= 0 THEN x[1] \div x[2] ELSE -((-x[1]) \div x[2])

\* -------------------------------------------------------------------------
\* __prepare_source__ and normalize
\* -------------------------------------------------------------------------
\* pyloudnorm: the gain that brings a buffer to the target loudness
LoudnessGain(loudness) ==
    CASE loudness = AudioMaxLoudness -> RInt(3)
      [] loudness = NoiseMaxLoudness -> Rat(1, 2)
      [] OTHER                       -> RInt(1)

\* normalize(audio, meter, loudness, max_amp)
Normalize(audio, loudness, max_amp) ==
    LET signal == Scale(LoudnessGain(loudness), audio)
    IN  IF RLeq(RInt(ClipAmp), Peak(signal))
        THEN Scale(RDiv(max_amp, Peak(signal)), signal)
        ELSE signal

RECURSIVE ConvAt(_, _, _, _)
ConvAt(src, taps, i, k) ==
    IF k = 0 \/ k > i THEN RZero
    ELSE RAdd(RMul(taps[k], src[i - k + 1]), ConvAt(src, taps, i, k - 1))

\* reverberate(source, rir): convolution, cut to the length of the source
Reverberate(src, taps) ==
    [i \in 1..Len(src) |-> ConvAt(src, taps, i, Min2(i, Len(taps)))]

NoTensor == [is_none |-> TRUE, buf |-> <<>>]

Tensor(buf) == [is_none |-> FALSE, buf |-> buf]

\* source[:length]
Truncate(src, length) == SubSeq(src, 1, Min2(length, Len(src)))

\* the buffer __prepare_source__ returns for a file of the expected rate
PrepareSource(file, rir_t, is_noise, length, loudness, cfg) ==
    LET loaded == FileAudio(file)
        cut    == IF is_noise THEN loaded ELSE Truncate(loaded, length)
        normed == IF cfg.plain.audio_norm
                  THEN Normalize(cut, loudness, cfg.plain.audio_max_amp)
                  ELSE cut
    IN  IF ~is_noise /\ ~rir_t.is_none
        THEN Reverberate(normed, rir_t.buf)
        ELSE normed

\* what __prepare_source__ adds to mix_info
PrepareInfo(info, is_noise, length, loudness, cfg) ==
    LET withLen == IF is_noise THEN info
                   ELSE [info EXCEPT !.source_lengths = Append(@, length)]
    IN  IF ~cfg.plain.audio_norm THEN withLen
        ELSE IF is_noise
             THEN [withLen EXCEPT !.noise_loudness = <<loudness>>]
             ELSE [withLen EXCEPT !.source_loudness = Append(@, loudness)]


\* -------------------------------------------------------------------------
\* __postprocess__
\* -------------------------------------------------------------------------
VAdd(a, b) == [i \in 1..Len(a) |-> RAdd(a[i], b[i])]

\* tensor.repeat(times)
RECURSIVE Repeat(_, _)
Repeat(buf, times) == IF times <= 0 THEN <<>> ELSE buf \o Repeat(buf, times - 1)

FitNoiseNoCut(noise_buf, n) == Repeat(noise_buf, n \div Len(noise_buf) + 1)

\* noise.repeat(mixture.size(0) // noise.size(0) + 1)[: mixture.size(0)]
FitNoise(noise_buf, n) ==
    SubSeq(Repeat(noise_buf, n \div Len(noise_buf) + 1), 1, n)

GainAlwaysOne(mix_max_amp, max_amp) == RInt(1)

\* gain = 1.0; if mix_max_amp > audio_max_amp: gain = audio_max_amp / mix_max_amp
Gain(mix_max_amp, max_amp) ==
    IF RLess(max_amp, mix_max_amp) THEN RDiv(max_amp, mix_max_amp) ELSE RInt(1)

\* the draws of one __postprocess__ call: whether noise is added, the noise
\* file and its loudness, and the dither
NoiseDraws(cfg, nfiles) ==
    {[add |-> FALSE, file |-> "None", loudness |-> 0] :
        b \in {x \in Sampled(cfg.plain.noise_add, cfg.plain.noise_prob) : ~x}}
    \cup
    {[add |-> TRUE, file |-> nfiles[f], loudness |-> l] :
        f \in {x \in 1..Len(nfiles) :
                 TRUE \in Sampled(cfg.plain.noise_add, cfg.plain.noise_prob)},
        l \in UniformEnds(NoiseMinLoudness, NoiseMaxLoudness)}

DitherKinds(cfg) == IF cfg.plain.white_noise_add THEN {0, 1} ELSE {0}

\* __postprocess__(mixture, sources, mix_info). alias holds the positions of
\* `srcs` that are the very tensor `mix_in`: the two `mixture += ...` act in
\* place and show through them. ok is FALSE when the noise file fails to load
\* or the mixture is empty.
Postprocess(mix_in, srcs, alias, nd, wn_kind, info, cfg, orig_sr) ==
    LET n         == Len(mix_in)
        loaded    == nd.add /\ FileRate(nd.file) = orig_sr
        noise_buf == IF loaded
                     THEN FitNoise(PrepareSource(nd.file, NoTensor, TRUE, 0,
                                                 nd.loudness, cfg), n)
                     ELSE <<>>
        info1     == IF nd.add
                     THEN PrepareInfo([info EXCEPT !.noise = nd.file], TRUE, 0,
                                      nd.loudness, cfg)
                     ELSE info
        mix1      == IF loaded THEN VAdd(mix_in, noise_buf) ELSE mix_in
        mix2      == IF cfg.plain.white_noise_add
                     THEN VAdd(mix1, WhiteNoise(wn_kind, n)) ELSE mix1
        srcs_now  == [k \in 1..Len(srcs) |-> IF k \in alias THEN mix2 ELSE srcs[k]]
        mix_max_amp == Peak(mix2)
        gain      == Gain(mix_max_amp, cfg.plain.audio_max_amp)
    IN  [ok       |-> (nd.add => loaded) /\ n > 0,
         mixture  |-> Scale(gain, mix2),
         sources  |-> [k \in 1..Len(srcs) |-> Scale(gain, srcs_now[k])],
         noise    |-> IF loaded THEN Tensor(Scale(gain, noise_buf)) ELSE NoTensor,
         mix_info |-> [info1 EXCEPT !.duration = Rat(n, cfg.plain.sample_rate)],
         pre      |-> [mixture |-> mix2, sources |-> srcs_now,
                       noise |-> IF loaded THEN Tensor(noise_buf) ELSE NoTensor,
                       mix_max_amp |-> mix_max_amp, gain |-> gain]]

\* -------------------------------------------------------------------------
\* One request: __getitem__ -> generate
\* -------------------------------------------------------------------------
\* mix_info as generate creates it (source_loudness and noise_loudness are
\* keys that appear on first use)
NewMixInfo ==
    [num_spkrs |-> 0, speakers |-> <<>>, sources |-> <<>>,
     source_lengths |-> <<>>, overlap_ratios_paddings |-> <<>>,
     noise |-> "None", rir |-> "None", data |-> <<>>, duration |-> RZero,
     source_loudness |-> <<>>, noise_loudness |-> <<>>]

NoPre ==
    [mixture |-> <<>>, sources |-> <<>>, noise |-> NoTensor,
     mix_max_amp |-> RZero, gain |-> RInt(1)]

NoRet == [mixture |-> <<>>, sources |-> <<>>, noise |-> NoTensor]

NoDct ==
    [id |-> <<>>, mix_sig |-> <<>>, s1_sig |-> <<>>, s2_sig |-> <<>>,
     s3_sig |-> <<>>, noise_sig |-> <<>>, data |-> <<>>]

\* the locals of a request that has not started, or that raised
FreshCall(where) ==
    /\ pc' = where
    /\ mix_info' = NewMixInfo
    /\ rir' = NoTensor
    /\ sources' = <<>>
    /\ source_idxs' = <<>>
    /\ mixture' = <<>>
    /\ padded_sources' = <<>>
    /\ pre_gain' = NoPre
    /\ ret' = NoRet
    /\ dct' = NoDct

RaiseKeepingLocals ==
    /\ pc' = "failed"
    /\ UNCHANGED <<mix_info, rir, sources, source_idxs, mixture,
                   padded_sources, pre_gain, ret, dct>>

\* an exception leaves generate and __getitem__: the locals are gone and
\* nothing is returned
Raise == FreshCall("failed")

SourceLengths(cfg) == cfg.plain.min_source_len .. cfg.plain.max_source_len

\* generate, lines 207-223: mix_info is created and the speaker count drawn
ChooseSpeakerCount ==
    /\ pc = "idle"
    /\ \E n \in Support(config.num_spkrs, config.num_spkrs_prob) :
         /\ mix_info' = [NewMixInfo EXCEPT !.num_spkrs = n]
         /\ pc' = IF n <= 0 THEN "zero" ELSE "speakers"
    /\ UNCHANGED <<rir, sources, source_idxs, mixture, padded_sources,
                   pre_gain, ret, dct>>
    /\ UNCHANGED <<mixVars, cfgVars, selfVars, otherVars>>

ZeroPathSpeakersNone(speakers) == speakers

\* mix_info["speakers"].append("no-spkr")
ZeroPathSpeakers(speakers) == Append(speakers, "no-spkr")

\* generate, lines 223-232: the zero-speaker path
ZeroSpeakerPath ==
    /\ pc = "zero"
    /\ \E length \in SourceLengths(config),
          nd \in NoiseDraws(config, noise_files),
          wn \in DitherKinds(config) :
         LET silence == <<Zeros(length)>>
             r == Postprocess(silence[1], silence, {1}, nd, wn, mix_info,
                              config, OrigSr(spkr_files))
         IN  IF r.ok
             THEN /\ pc' = "generated"
                  /\ mix_info' = [r.mix_info EXCEPT
                                    !.speakers = ZeroPathSpeakers(@)]
                  /\ mixture' = r.mixture
                  /\ sources' = r.sources
                  /\ pre_gain' = r.pre
                  /\ ret' = [mixture |-> r.mixture, sources |-> r.sources,
                             noise |-> r.noise]
                  /\ UNCHANGED <<rir, source_idxs, padded_sources, dct>>
             ELSE Raise
    /\ UNCHANGED <<mixVars, cfgVars, selfVars, otherVars>>

\* generate, lines 234-240
ChooseSpeakers ==
    /\ pc = "speakers"
    /\ LET picks == OrderedSamples(SpkrNamesOf(spkr_files), mix_info.num_spkrs)
       IN  IF picks = {}
           THEN Raise
           ELSE \E spk \in picks :
                  /\ mix_info' = [mix_info EXCEPT !.speakers = spk]
                  /\ pc' = "rir"
                  /\ UNCHANGED <<rir, sources, source_idxs, mixture,
                                 padded_sources, pre_gain, ret, dct>>
    /\ UNCHANGED <<mixVars, cfgVars, selfVars, otherVars>>

\* generate, lines 242-250
ChooseRIR ==
    /\ pc = "rir"
    /\ \E use \in Sampled(config.plain.rir_add, config.plain.rir_prob) :
         IF ~use
         THEN /\ pc' = "load"
              /\ UNCHANGED <<mix_info, rir, sources, source_idxs, mixture,
                             padded_sources, pre_gain, ret, dct>>
         ELSE \E f \in 1..Len(rir_files) :
                IF FileRate(rir_files[f]) = OrigSr(spkr_files)
                THEN /\ pc' = "load"
                     /\ mix_info' = [mix_info EXCEPT !.rir = rir_files[f]]
                     /\ rir' = Tensor(FileAudio(rir_files[f]))
                     /\ UNCHANGED <<sources, source_idxs, mixture,
                                    padded_sources, pre_gain, ret, dct>>
                ELSE Raise
    /\ UNCHANGED <<mixVars, cfgVars, selfVars, otherVars>>


\* the stable order sorted(..., key=size, reverse=True) gives positions 1..n
RECURSIVE SortPerm(_, _)
SortPerm(lens, n) ==
    IF n = 0 THEN <<>>
    ELSE LET p   == SortPerm(lens, n - 1)
             pos == Cardinality({j \in 1..Len(p) : lens[p[j]] >= lens[n]})
         IN  SubSeq(p, 1, pos) \o <<n>> \o SubSeq(p, pos + 1, Len(p))

Permute(xs, perm) == [k \in 1..Len(perm) |-> xs[perm[k]]]

\* generate, lines 255-264: one turn of the loop over the chosen speakers
LoadSource ==
    /\ pc = "load"
    /\ LET spkr == mix_info.speakers[Len(sources) + 1]
       IN  \E spkr_idx \in 1..Len(spkr_files[spkr]),
              length \in SourceLengths(config),
              loudness \in UniformEnds(AudioMinLoudness, AudioMaxLoudness) :
             LET src_file == spkr_files[spkr][spkr_idx][1]
                 src_idx  == spkr_files[spkr][spkr_idx][2]
             IN  IF FileRate(src_file) = OrigSr(spkr_files)
                 THEN /\ sources' = Append(sources,
                            PrepareSource(src_file, rir, FALSE, length,
                                          loudness, config))
                      /\ source_idxs' = Append(source_idxs, src_idx)
                      /\ mix_info' = PrepareInfo(
                            [mix_info EXCEPT !.sources = Append(@, src_file)],
                            FALSE, length, loudness, config)
                      /\ pc' = IF Len(sources) + 1 = mix_info.num_spkrs
                               THEN "sort" ELSE "load"
                      /\ UNCHANGED <<rir, mixture, padded_sources, pre_gain,
                                     ret, dct>>
                 ELSE Raise
    /\ UNCHANGED <<mixVars, cfgVars, selfVars, otherVars>>

\* generate, lines 266-282: the longest-first sort and the start of the mix
SortByLength ==
    /\ pc = "sort"
    /\ LET perm == SortPerm([k \in 1..Len(sources) |-> Len(sources[k])],
                            Len(sources))
           sorted == Permute(sources, perm)
       IN  /\ sources' = sorted
           /\ source_idxs' = Permute(source_idxs, perm)
           /\ mix_info' = [mix_info EXCEPT
                             !.sources = Permute(@, perm),
                             !.source_lengths = Permute(@, perm)]
           /\ mixture' = sorted[1]
           /\ padded_sources' = <<sorted[1]>>
           /\ pc' = IF Len(sorted) > 1 THEN "mix" ELSE "post"
    /\ UNCHANGED <<rir, pre_gain, ret, dct>>
    /\ UNCHANGED <<mixVars, cfgVars, selfVars, otherVars>>

RepadWithSourcePadding(padded, paddings) ==
    PadSources(padded, [k \in 1..Len(padded) |-> paddings[1]])

\* __pad_sources__(padded_sources, [paddings[1] for _ in ...]): the earlier
\* sources get the padding the running mixture got
Repad(padded, paddings) ==
    PadSources(padded, [k \in 1..Len(padded) |-> paddings[2]])

\* generate, lines 283-299: one turn of the mixing loop
MixStep ==
    /\ pc = "mix"
    /\ LET src == sources[Len(padded_sources) + 1]
       IN  \E ratio \in Support(config.overlap_ratio, config.overlap_prob),
              lpad \in LpadChoices(Abs(Len(src) - Len(mixture))),
              start_short \in BOOLEAN :
             LET overlap_samples == TruncRat(RMul(RInt(Len(src)), ratio))
                 m == Mix(src, mixture, overlap_samples, lpad, start_short)
             IN  IF m.ok
                 THEN /\ mixture' = m.mixture
                      /\ mix_info' = [mix_info EXCEPT
                            !.overlap_ratios_paddings =
                                Append(@, <<ratio, m.paddings>>)]
                      /\ padded_sources' =
                            Append(Repad(padded_sources, m.paddings),
                                   m.sources[1])
                      /\ pc' = IF Len(padded_sources) + 1 = Len(sources)
                               THEN "post" ELSE "mix"
                      /\ UNCHANGED <<rir, sources, source_idxs, pre_gain,
                                     ret, dct>>
                 ELSE Raise
    /\ UNCHANGED <<mixVars, cfgVars, selfVars, otherVars>>

\* generate, lines 300-307: the scaled sources are bound to `padded_source`
\* and `padded_sources` is what is returned
ReturnedSources(padded, scaled) == padded

DatasetEntriesInOrder(ds, idxs) == [k \in 1..Len(idxs) |-> ds.items[k]]

\* [self.dataset[idx] for idx in source_idxs]
DatasetEntries(ds, idxs) == [k \in 1..Len(idxs) |-> ds.items[idxs[k] + 1]]

\* generate, lines 300-307
PostprocessStep ==
    /\ pc = "post"
    /\ \E nd \in NoiseDraws(config, noise_files), wn \in DitherKinds(config) :
         LET r == Postprocess(mixture, padded_sources, {}, nd, wn, mix_info,
                              config, OrigSr(spkr_files))
         IN  IF r.ok
             THEN /\ pc' = "generated"
                  /\ mixture' = r.mixture
                  /\ pre_gain' = r.pre
                  /\ mix_info' = IF dataset.bound
                                 THEN [r.mix_info EXCEPT !.data =
                                         DatasetEntries(dataset, source_idxs)]
                                 ELSE r.mix_info
                  /\ ret' = [mixture |-> r.mixture,
                             sources |-> ReturnedSources(padded_sources,
                                                         r.sources),
                             noise |-> r.noise]
                  /\ UNCHANGED <<rir, sources, source_idxs, padded_sources,
                                 dct>>
             ELSE Raise
    /\ UNCHANGED <<mixVars, cfgVars, selfVars, otherVars>>

\* the number of source slots of a record
NumSlots == 3

\* for i in range(3 - len(srcs)): srcs.append(torch.zeros(mix.size(0)))
FillSlots(srcs, n) == srcs \o [k \in 1..(NumSlots - Len(srcs)) |-> Zeros(n)]

\* __getitem__, lines 405-436
AssembleRecord ==
    /\ pc = "generated"
    /\ LET srcs == FillSlots(ret.sources, Len(ret.mixture))
       IN  dct' = [id |-> <<mix_info.speakers,
                            [k \in 1..Len(mix_info.overlap_ratios_paddings) |->
                                mix_info.overlap_ratios_paddings[k][1]]>>,
                   mix_sig |-> ret.mixture,
                   s1_sig |-> srcs[1],
                   s2_sig |-> srcs[2],
                   s3_sig |-> srcs[3],
                   noise_sig |-> IF ret.noise.is_none
                                 THEN Zeros(Len(ret.mixture))
                                 ELSE ret.noise.buf,
                   data |-> mix_info.data]
    /\ pc' = "done"
    /\ UNCHANGED <<mix_info, rir, sources, source_idxs, mixture,
                   padded_sources, pre_gain, ret>>
    /\ UNCHANGED <<mixVars, cfgVars, selfVars, otherVars>>

\* the caller takes the record, or the exception, and may ask again
NextRequest ==
    /\ pc \in {"done", "failed"}
    /\ FreshCall("idle")
    /\ UNCHANGED <<mixVars, cfgVars, selfVars, otherVars>>


\* -------------------------------------------------------------------------
\* parse_paths: a manifest line is a sequence of characters, " " the
\* whitespace; a path is a sequence of characters
\* -------------------------------------------------------------------------
\* line.strip().split(): the maximal runs of non-whitespace, left to right
RECURSIVE SplitFrom(_, _, _)
SplitFrom(line, i, word) ==
    IF i > Len(line)
    THEN IF word = <<>> THEN <<>> ELSE <<word>>
    ELSE IF line[i] = " "
         THEN IF word = <<>> THEN SplitFrom(line, i + 1, <<>>)
              ELSE <<word>> \o SplitFrom(line, i + 1, <<>>)
         ELSE SplitFrom(line, i + 1, Append(word, line[i]))

\* re.sub(ptrn, replacement, path) for a pattern of literal characters: every
\* non-overlapping occurrence, leftmost first, is replaced
RECURSIVE ReSub(_, _, _)
ReSub(ptrn, replacement, path) ==
    IF Len(path) < Len(ptrn) THEN path
    ELSE IF SubSeq(path, 1, Len(ptrn)) = ptrn
         THEN replacement
                \o ReSub(ptrn, replacement, SubSeq(path, Len(ptrn) + 1, Len(path)))
         ELSE <<path[1]>> \o ReSub(ptrn, replacement, Tail(path))

RECURSIVE ApplyReplacementsBackwards(_, _)
ApplyReplacementsBackwards(replacements, path) ==
    IF replacements = <<>> THEN path
    ELSE LET last == replacements[Len(replacements)]
         IN  ApplyReplacementsBackwards(
               SubSeq(replacements, 1, Len(replacements) - 1),
               ReSub(last[1], last[2], path))

\* for ptrn, replacement in replacements.items(): path = re.sub(...)
RECURSIVE ApplyReplacements(_, _)
ApplyReplacements(replacements, path) ==
    IF replacements = <<>> THEN path
    ELSE ApplyReplacements(Tail(replacements),
           ReSub(Head(replacements)[1], Head(replacements)[2], path))

NoPaths == [ok |-> FALSE, paths |-> <<>>]

\* parse_paths(file, replacements): [ok, paths]; a line without any token
\* makes split()[-1] raise IndexError
RECURSIVE ParsePathsFrom(_, _, _)
ParsePathsFrom(lines, replacements, paths) ==
    IF lines = <<>> THEN [ok |-> TRUE, paths |-> paths]
    ELSE LET words == SplitFrom(Head(lines), 1, <<>>)
         IN  IF words = <<>> THEN NoPaths
             ELSE ParsePathsFrom(Tail(lines), replacements,
                    Append(paths,
                      ApplyReplacements(replacements, words[Len(words)])))

ParsePaths(lines, replacements) == ParsePathsFrom(lines, replacements, <<>>)

\* most lines a manifest handed to parse_paths on its own has
MaxLines == 2

\* the lines manifests are made of
ManifestLines ==
    {<<"a">>, <<"x", " ", "a", "b">>, <<" ", "b", "a", " ">>,
     <<"a", " ", " ", "x", "a">>, <<" ">>, <<>>}

\* the replacements dictionaries, as (pattern, replacement) pairs in
\* insertion order
ReplacementDicts ==
    {<<>>,
     << <<<<"a">>, <<"b">>>> >>,
     << <<<<"a">>, <<"b">>>>, <<<<"b">>, <<"c">>>> >>,
     << <<<<"b">>, <<"c">>>>, <<<<"a">>, <<"b">>>> >>,
     << <<<<"b", "a">>, <<>>>>, <<<<"a">>, <<"d", "/">>>> >>}


\* -------------------------------------------------------------------------
\* Building the dataset: from_didataset, from_wavs, __init__
\* -------------------------------------------------------------------------
\* Python values a pool entry is made of: a str, an int, None, and the pair
\* (path, idx)
PyStr(str) == [tag |-> "str", s |-> str, i |-> 0]

PyInt(int) == [tag |-> "int", s |-> "", i |-> int]

PyNone == [tag |-> "None", s |-> "", i |-> 0]

PyTuple(str, int) == [tag |-> "tuple", s |-> str, i |-> int]

\* from_wavs: spkr_files[f"spkr{spkr}"] = [(wavfile, None)], as the sequence
\* of (key, entries) in insertion order
FromWavs(wav_file_list) ==
    [k \in 1..Len(wav_file_list) |->
       << <<"spkr0", "spkr1", "spkr2", "spkr3", "spkr4">>[k],
          << <<wav_file_list[k], PyNone>> >> >>]

\* from_didataset with a speaker key: entries (d[wav_key], idx) appended to
\* the list of d[spkr_key], keys in order of first appearance
RECURSIVE GroupBySpeaker(_, _, _)
GroupBySpeaker(items, idx, pool) ==
    IF idx >= Len(items) THEN pool
    ELSE LET d     == items[idx + 1]
             entry == <<PyStr(d.wav_file), PyInt(idx)>>
             at    == {k \in 1..Len(pool) : pool[k][1] = d.spkr}
         IN  GroupBySpeaker(items, idx + 1,
               IF at = {} THEN Append(pool, <<d.spkr, <<entry>>>>)
               ELSE [k \in 1..Len(pool) |->
                       IF k \in at THEN <<pool[k][1], Append(pool[k][2], entry)>>
                       ELSE pool[k]])

\* the spkr_files from_didataset hands to the constructor
DidatasetPool(items, spkr_key) ==
    IF spkr_key = "None"
    THEN FromWavs([k \in 1..Len(items) |-> PyTuple(items[k].wav_file, k - 1)])
    ELSE GroupBySpeaker(items, 0, <<>>)

\* the pool as self.spkr_files holds it: key -> list of (file, index)
PlainPool(pool) ==
    [n \in {pool[k][1] : k \in 1..Len(pool)} |->
       LET k == CHOOSE j \in 1..Len(pool) : pool[j][1] = n
       IN  [e \in 1..Len(pool[k][2]) |->
              <<pool[k][2][e][1].s, pool[k][2][e][2].i>>]]

\* the file a resolved path names
FileNamed(path) ==
    CASE path = <<"n">> -> "n.wav"
      [] path = <<"m">> -> "n8k.wav"
      [] path = <<"r">> -> "r.wav"
      [] path = <<"q">> -> "r8k.wav"
      [] OTHER          -> "missing.wav"

EnoughSpeakersAlways(pool, cfg) == TRUE

\* not (len(spkr_files.keys()) < max(config.num_spkrs)); max of an empty list
\* raises as well
EnoughSpeakers(pool, cfg) ==
    /\ cfg.num_spkrs # <<>>
    /\ \A i \in 1..Len(cfg.num_spkrs) : Len(pool) >= cfg.num_spkrs[i]

NonEmptyAlways(paths) == TRUE

\* assert len(self.noise_files) > 0, assert len(self.rir_files) > 0
NonEmpty(paths) == Len(paths) > 0

NoFlist == [none |-> TRUE, lines |-> <<>>]

Flist(lines) == [none |-> FALSE, lines |-> lines]

\* one of the two list files as __init__ treats it: [ok, parsed, files]
ResolveList(enabled, flist) ==
    IF ~enabled THEN [ok |-> TRUE, parsed |-> NoPaths, files |-> <<>>]
    ELSE IF flist.none THEN [ok |-> FALSE, parsed |-> NoPaths, files |-> <<>>]
    ELSE LET parsed == ParsePaths(flist.lines, <<>>)
         IN  [ok     |-> parsed.ok /\ NonEmpty(parsed.paths),
              parsed |-> parsed,
              files  |-> [k \in 1..Len(parsed.paths) |->
                            FileNamed(parsed.paths[k])]]

\* DynamicMixingDataset.__init__(spkr_files, config, noise_flist, rir_flist):
\* [ok, noise, rir]; torchaudio.info raises for a file that is not a path
DatasetInit(pool, cfg, noise_flist, rir_flist) ==
    IF ~EnoughSpeakers(pool, cfg) \/ pool = <<>>
    THEN [ok |-> FALSE, noise |-> ResolveList(FALSE, NoFlist),
          rir |-> ResolveList(FALSE, NoFlist)]
    ELSE IF pool[1][2][1][1].tag # "str"
    THEN [ok |-> FALSE, noise |-> ResolveList(FALSE, NoFlist),
          rir |-> ResolveList(FALSE, NoFlist)]
    ELSE LET noise == ResolveList(cfg.plain.noise_add, noise_flist)
         IN  IF ~noise.ok
             THEN [ok |-> FALSE, noise |-> noise,
                   rir |-> ResolveList(FALSE, NoFlist)]
             ELSE LET rirs == ResolveList(cfg.plain.rir_add, rir_flist)
                  IN  [ok |-> rirs.ok, noise |-> noise, rir |-> rirs]

\* the configurations datasets are built with: sources of one sample, with
\* and without background noise and reverberation
BuildArgs ==
    {[num_spkrs      |-> ListArg(<<1, 2>>),
      num_spkrs_prob |-> NoneArg,
      overlap_ratio  |-> ListArg(<<RInt(1)>>),
      overlap_prob   |-> NoneArg,
      plain          |-> PlainFields(FALSE, FALSE, FALSE, FALSE, 1, 1)],
     [num_spkrs      |-> ListArg(<<0, 3>>),
      num_spkrs_prob |-> NoneArg,
      overlap_ratio  |-> ListArg(<<RInt(1)>>),
      overlap_prob   |-> NoneArg,
      plain          |-> PlainFields(FALSE, TRUE, FALSE, FALSE, 1, 1)],
     [num_spkrs      |-> ListArg(<<2>>),
      num_spkrs_prob |-> NoneArg,
      overlap_ratio  |-> ListArg(<<RInt(0)>>),
      overlap_prob   |-> NoneArg,
      plain          |-> PlainFields(FALSE, TRUE, FALSE, TRUE, 1, 1)]}

\* the list files: none given, an empty file, a file of two lines
NoiseFlists == {NoFlist, Flist(<<>>), Flist(<<<<"n">>, <<"x", " ", "m">>>>)}

RirFlists == {NoFlist, Flist(<<>>), Flist(<<<<"r">>, <<"q">>>>)}

NoBuild ==
    [pc |-> "unused", items |-> <<>>, wav_key |-> "None", spkr_key |-> "None",
     args |-> NoArgs, noise_flist |-> NoFlist, rir_flist |-> NoFlist,
     pool |-> <<>>, noise_parsed |-> NoPaths, rir_parsed |-> NoPaths]

NoParse ==
    [pc |-> "unused", lines |-> <<>>, replacements |-> <<>>, out |-> NoPaths]

\* -------------------------------------------------------------------------
\* SaveableDataLoader (speechbrain/data_io/dataloader.py)
\* -------------------------------------------------------------------------
\* entries of the sampler, one batch each
MaxBatches == 11

\* operations on a loader object that its history keeps
HistLen == 3

\* the epoch's order: position p (from 0) holds dataset index MaxBatches-1-p
SamplerOrder == [p \in 1..MaxBatches |-> MaxBatches - p]

DigitChars == <<"0", "1", "2", "3", "4", "5", "6", "7", "8", "9">>

\* str(n) of a non-negative int, as characters
RECURSIVE StrOf(_)
StrOf(n) ==
    IF n < 10 THEN <<DigitChars[n + 1]>>
    ELSE Append(StrOf(n \div 10), DigitChars[(n % 10) + 1])

\* str(None)
StrNone == <<"N", "o", "n", "e">>

\* int(saved) of a text of decimal digits
RECURSIVE IntOf(_)
IntOf(chars) ==
    IF chars = <<>> THEN 0
    ELSE 10 * IntOf(SubSeq(chars, 1, Len(chars) - 1))
         + (CHOOSE d \in 0..9 : DigitChars[d + 1] = chars[Len(chars)])

NoIterator == [is_none |-> TRUE, sampler_pos |-> 0, num_yielded |-> 0]

\* _BaseDataLoaderIter.__old_init__: a new sampler iterator, nothing yielded
OldInit == [is_none |-> FALSE, sampler_pos |-> 0, num_yielded |-> 0]

FastForwardSamplerOnly(it, skip_to) == [it EXCEPT !.sampler_pos = skip_to]

\* __new_init, lines 65-68: next(self._sampler_iter) skip_to times, and
\* self._num_yielded = skip_to
FastForward(it, skip_to) ==
    [it EXCEPT !.sampler_pos = skip_to, !.num_yielded = skip_to]

\* the history of a loader object after one more operation
Log(hist, op) ==
    IF Len(hist) < HistLen THEN Append(hist, op)
    ELSE IF Len(hist) = HistLen THEN Append(hist, "more") ELSE hist

\* SaveableDataLoader.__init__, beside the checkpoint file `file`
NewLoader(file) ==
    [skip_to |-> PyNone, iterator |-> NoIterator, file |-> file,
     item |-> PyNone, hist |-> <<>>]

NoLoader == [NewLoader(<<>>) EXCEPT !.hist = <<"unused">>]

\* the locals of a request that has not started
NoCall(id) ==
    [id |-> id, pc |-> "unused", mix_info |-> NewMixInfo, rir |-> NoTensor,
     sources |-> <<>>, source_idxs |-> <<>>, mixture |-> <<>>,
     padded_sources |-> <<>>, pre_gain |-> NoPre, ret |-> NoRet, dct |-> NoDct]

\* an enhancement that is not bound to any dataset
NoPairing ==
    [pc |-> "unused", metric |-> <<>>, min_delta |-> 0, keys_set |-> FALSE,
     indexes_sorted |-> <<>>, min_shift_left |-> <<>>, shift_max |-> <<>>,
     pairings |-> <<>>]

\* self.word_map = defaultdict(lambda: set()): no key yet
EmptyWordMap == [w \in {} |-> {}]

\* a result is a truth value (is_set FALSE) or a set of words
NoResult == [is_set |-> FALSE, truth |-> FALSE, words |-> {}]

NoSynonyms == [word_map |-> EmptyWordMap, op |-> "unused", result |-> NoResult]

UtilUnused ==
    /\ pairing = NoPairing
    /\ synonyms = NoSynonyms

OtherUnused ==
    /\ parse = NoParse
    /\ build = NoBuild
    /\ parked = NoCall(0)
    /\ loader = NoLoader
    /\ UtilUnused


\* -------------------------------------------------------------------------
\* Specifications
\* -------------------------------------------------------------------------
NoMixOut ==
    [ok |-> FALSE, mixture |-> <<>>, sources |-> <<<<>>, <<>>>>,
     paddings |-> <<<<0, 0>>, <<0, 0>>>>]

MixUnused ==
    /\ mix_pc = "unused"
    /\ mix_src1 = <<>>
    /\ mix_src2 = <<>>
    /\ mix_overlap = 0
    /\ mix_out = NoMixOut

CfgUnused ==
    /\ cfg_pc = "unused"
    /\ cfg_args = NoArgs

CallUnused ==
    /\ pc = "unused"
    /\ mix_info = NewMixInfo
    /\ rir = NoTensor
    /\ sources = <<>>
    /\ source_idxs = <<>>
    /\ mixture = <<>>
    /\ padded_sources = <<>>
    /\ pre_gain = NoPre
    /\ ret = NoRet
    /\ dct = NoDct

SelfUnused ==
    /\ config = NoConfig
    /\ spkr_files = PoolFiles
    /\ noise_files = <<>>
    /\ rir_files = <<>>
    /\ dataset = NoDataset

\* the dataset after DynamicMixingDataset.from_didataset, before any request
Init ==
    /\ config \in {PostInit(a).config : a \in GenerateArgs}
    /\ spkr_files = PoolFiles
    /\ noise_files = <<"n.wav", "n8k.wav">>
    /\ rir_files = <<"r.wav", "r8k.wav">>
    /\ dataset = BoundDataset
    /\ pc = "idle"
    /\ mix_info = NewMixInfo
    /\ rir = NoTensor
    /\ sources = <<>>
    /\ source_idxs = <<>>
    /\ mixture = <<>>
    /\ padded_sources = <<>>
    /\ pre_gain = NoPre
    /\ ret = NoRet
    /\ dct = NoDct
    /\ MixUnused
    /\ CfgUnused
    /\ OtherUnused

Next ==
    \/ ChooseSpeakerCount
    \/ ZeroSpeakerPath
    \/ ChooseSpeakers
    \/ ChooseRIR
    \/ LoadSource
    \/ SortByLength
    \/ MixStep
    \/ PostprocessStep
    \/ AssembleRecord
    \/ NextRequest

Spec == Init /\ [][Next]_vars

\* --- mix on its own ---
\* the two buffers mix is called with: src1 counts up from 1, src2 from 11
BufferA(n) == [i \in 1..n |-> RInt(i)]

BufferB(n) == [i \in 1..n |-> RInt(10 + i)]

MixInit ==
    /\ mix_pc = "call"
    /\ mix_src1 \in {BufferA(n) : n \in 0..MaxMixLen}
    /\ mix_src2 \in {BufferB(n) : n \in 0..MaxMixLen}
    /\ mix_overlap \in (-MaxOverlap)..MaxOverlap
    /\ mix_out = NoMixOut
    /\ CfgUnused
    /\ SelfUnused
    /\ CallUnused
    /\ OtherUnused

CallMix ==
    /\ mix_pc = "call"
    /\ \E lpad \in LpadChoices(Abs(Len(mix_src1) - Len(mix_src2))),
          start_short \in BOOLEAN :
         mix_out' = Mix(mix_src1, mix_src2, mix_overlap, lpad, start_short)
    /\ mix_pc' = "returned"
    /\ UNCHANGED <<mix_src1, mix_src2, mix_overlap>>
    /\ UNCHANGED <<cfgVars, selfVars, callVars, otherVars>>

MixNext == CallMix

SpecMix == MixInit /\ [][MixNext]_vars

\* --- DynamicMixingConfig on its own ---
CfgInit ==
    /\ cfg_pc = "new"
    /\ cfg_args \in ConfigArgs
    /\ config = NoConfig
    /\ spkr_files = PoolFiles
    /\ noise_files = <<>>
    /\ rir_files = <<>>
    /\ dataset = NoDataset
    /\ MixUnused
    /\ CallUnused
    /\ OtherUnused

\* DynamicMixingConfig(**args): the dataclass __init__ and __post_init__
ConstructConfig ==
    /\ cfg_pc = "new"
    /\ LET r == PostInit(cfg_args)
       IN  IF r.ok
           THEN cfg_pc' = "constructed" /\ config' = r.config
           ELSE cfg_pc' = "failed" /\ config' = config
    /\ UNCHANGED <<cfg_args, spkr_files, noise_files, rir_files, dataset>>
    /\ UNCHANGED <<mixVars, callVars, otherVars>>

CfgNext == ConstructConfig

SpecConfig == CfgInit /\ [][CfgNext]_vars

\* --- parse_paths on its own ---
PathInit ==
    /\ parse \in [pc : {"call"},
                  lines : UNION {[1..n -> ManifestLines] : n \in 0..MaxLines},
                  replacements : ReplacementDicts,
                  out : {NoPaths}]
    /\ build = NoBuild
    /\ parked = NoCall(0)
    /\ loader = NoLoader
    /\ UtilUnused
    /\ MixUnused
    /\ CfgUnused
    /\ SelfUnused
    /\ CallUnused

\* paths = parse_paths(file, replacements)
CallParsePaths ==
    /\ parse.pc = "call"
    /\ LET r == ParsePaths(parse.lines, parse.replacements)
       IN  parse' = [parse EXCEPT !.out = r,
                                  !.pc = IF r.ok THEN "returned" ELSE "raised"]
    /\ UNCHANGED <<mixVars, cfgVars, selfVars, callVars, build, parked, loader, pairing, synonyms>>

SpecPaths == PathInit /\ [][CallParsePaths]_vars

\* --- building a dataset and asking it for mixtures ---
\* the first n items of the backing dataset
BuildInit ==
    /\ build \in [pc : {"call"},
                  items : {SubSeq(BoundDataset.items, 1, n) : n \in 2..4},
                  wav_key : {"wav_file", "None"},
                  spkr_key : {"spkr", "None"},
                  args : BuildArgs,
                  noise_flist : NoiseFlists,
                  rir_flist : RirFlists,
                  pool : {<<>>},
                  noise_parsed : {NoPaths},
                  rir_parsed : {NoPaths}]
    /\ parse = NoParse
    /\ parked = NoCall(0)
    /\ loader = NoLoader
    /\ UtilUnused
    /\ MixUnused
    /\ CfgUnused
    /\ SelfUnused
    /\ CallUnused

\* DynamicMixingDataset.from_didataset(dataset, config, wav_key, spkr_key,
\* noise_flist=..., rir_flist=...)
CallFromDidataset ==
    /\ build.pc = "call"
    /\ IF build.wav_key = "None"
       THEN /\ build' = [build EXCEPT !.pc = "raised"]
            /\ UNCHANGED <<selfVars, callVars>>
       ELSE LET pool == DidatasetPool(build.items, build.spkr_key)
                cfg  == PostInit(build.args).config
                r    == DatasetInit(pool, cfg, build.noise_flist,
                                    build.rir_flist)
            IN  /\ build' = [build EXCEPT
                               !.pc = IF r.ok THEN "constructed" ELSE "raised",
                               !.pool = pool,
                               !.noise_parsed = r.noise.parsed,
                               !.rir_parsed = r.rir.parsed]
                /\ IF r.ok
                   THEN /\ spkr_files' = PlainPool(pool)
                        /\ config' = cfg
                        /\ noise_files' = r.noise.files
                        /\ rir_files' = r.rir.files
                        /\ dataset' = [bound |-> TRUE, items |-> build.items]
                        /\ pc' = "idle"
                        /\ UNCHANGED <<mix_info, rir, sources, source_idxs,
                                       mixture, padded_sources, pre_gain,
                                       ret, dct>>
                   ELSE UNCHANGED <<selfVars, callVars>>
    /\ UNCHANGED <<mixVars, cfgVars, parse, parked, loader, pairing, synonyms>>

BuildNext ==
    \/ CallFromDidataset
    \/ Next

SpecBuild == BuildInit /\ [][BuildNext]_vars

\* --- two requests on one dataset, their steps interleaved ---
\* one-sample sources, up to two speakers, no noise
ConcArgs ==
    [num_spkrs      |-> ListArg(<<0, 1, 2>>),
     num_spkrs_prob |-> NoneArg,
     overlap_ratio  |-> ListArg(<<RInt(1)>>),
     overlap_prob   |-> NoneArg,
     plain          |-> PlainFields(FALSE, FALSE, FALSE, FALSE, 1, 1)]

ConcInit ==
    /\ config = PostInit(ConcArgs).config
    /\ spkr_files = PoolFiles
    /\ noise_files = <<>>
    /\ rir_files = <<>>
    /\ dataset = BoundDataset
    /\ pc = "idle"
    /\ mix_info = NewMixInfo
    /\ rir = NoTensor
    /\ sources = <<>>
    /\ source_idxs = <<>>
    /\ mixture = <<>>
    /\ padded_sources = <<>>
    /\ pre_gain = NoPre
    /\ ret = NoRet
    /\ dct = NoDct
    /\ parked = [NoCall(2) EXCEPT !.pc = "idle"]
    /\ loader = NoLoader
    /\ UtilUnused
    /\ parse = NoParse
    /\ build = NoBuild
    /\ MixUnused
    /\ CfgUnused

SharedInfo(own, running) == running

\* mix_info = {...} is created by each call of generate and handed on as an
\* argument: the call that resumes finds its own
OwnInfo(own, running) == own

\* the running request is left between two steps and the other one goes on
SwitchCall ==
    /\ parked' = [id |-> 3 - parked.id, pc |-> pc, mix_info |-> mix_info,
                  rir |-> rir, sources |-> sources,
                  source_idxs |-> source_idxs, mixture |-> mixture,
                  padded_sources |-> padded_sources, pre_gain |-> pre_gain,
                  ret |-> ret, dct |-> dct]
    /\ pc' = parked.pc
    /\ mix_info' = OwnInfo(parked.mix_info, mix_info)
    /\ rir' = parked.rir
    /\ sources' = parked.sources
    /\ source_idxs' = parked.source_idxs
    /\ mixture' = parked.mixture
    /\ padded_sources' = parked.padded_sources
    /\ pre_gain' = parked.pre_gain
    /\ ret' = parked.ret
    /\ dct' = parked.dct
    /\ UNCHANGED <<mixVars, cfgVars, selfVars, parse, build, loader, pairing, synonyms>>

ConcNext ==
    \/ SwitchCall
    \/ Next

SpecConcurrent == ConcInit /\ [][ConcNext]_vars

\* --- a SaveableDataLoader, its iterators and its checkpoint file ---
LoaderInit ==
    /\ loader = NewLoader(<<>>)
    /\ UtilUnused
    /\ parse = NoParse
    /\ build = NoBuild
    /\ parked = NoCall(0)
    /\ MixUnused
    /\ CfgUnused
    /\ SelfUnused
    /\ CallUnused

LoaderFrame ==
    UNCHANGED <<mixVars, cfgVars, selfVars, callVars, parse, build, parked,
                pairing, synonyms>>

NewResetAlways(it, first_iter) ==
    [it EXCEPT !.sampler_pos = 0, !.num_yielded = 0]

\* __new_reset(self, loader, first_iter), lines 73-79
NewReset(it, first_iter) ==
    IF first_iter THEN it
    ELSE [it EXCEPT !.sampler_pos = 0, !.num_yielded = 0]

\* SaveableDataLoader.__iter__ making a new iterator: __new_init, lines 59-70;
\* an iterator with worker processes then ends its own __init__ with
\* self._reset(loader, first_iter=True), lines 73-79
LoaderIter ==
    /\ \E workers \in BOOLEAN :
         LET k    == loader.skip_to
             made == IF k.tag = "None" THEN OldInit
                     ELSE FastForward(OldInit, k.i)
         IN  IF k.tag # "None" /\ k.i > MaxBatches
             THEN loader' = [loader EXCEPT !.hist = Log(@, "iter raised")]
             ELSE loader' = [loader EXCEPT
                               !.iterator = IF workers THEN NewReset(made, TRUE)
                                            ELSE made,
                               !.skip_to = PyNone,
                               !.hist = Log(@, "iter")]
    /\ LoaderFrame

\* SaveableDataLoader.__iter__ of a loader that keeps its iterator (persistent
\* workers): __new_reset with first_iter=False, lines 73-79
LoaderIterAgain ==
    /\ ~loader.iterator.is_none
    /\ loader' = [loader EXCEPT !.iterator = NewReset(@, FALSE),
                                !.hist = Log(@, "iter")]
    /\ LoaderFrame

\* next(iterator): the sampler's next entry is fetched and counted
LoaderNextItem ==
    /\ ~loader.iterator.is_none
    /\ loader.iterator.sampler_pos < MaxBatches
    /\ loader' = [loader EXCEPT
                    !.item = PyInt(SamplerOrder[loader.iterator.sampler_pos + 1]),
                    !.iterator.sampler_pos = @ + 1,
                    !.iterator.num_yielded = @ + 1,
                    !.hist = Log(@, "next")]
    /\ LoaderFrame

\* _speechbrain_save, lines 128-135
LoaderSave ==
    /\ loader' = [loader EXCEPT
                    !.file = IF loader.iterator.is_none THEN StrNone
                             ELSE StrOf(loader.iterator.num_yielded),
                    !.hist = Log(@, "save")]
    /\ LoaderFrame

LoaderLoadUnguarded ==
    /\ loader.file # <<>>
    /\ \E end_of_epoch \in BOOLEAN :
         loader' = [loader EXCEPT
                      !.skip_to = IF loader.file = StrNone THEN @
                                  ELSE PyInt(IntOf(loader.file)),
                      !.hist = Log(@, IF end_of_epoch THEN "load at end of epoch"
                                      ELSE "load")]
    /\ LoaderFrame

\* _speechbrain_load(path, end_of_epoch), lines 137-158
LoaderLoad ==
    /\ loader.file # <<>>
    /\ \E end_of_epoch \in BOOLEAN :
         loader' = [loader EXCEPT
                      !.skip_to =
                         IF ~loader.iterator.is_none \/ end_of_epoch
                            \/ loader.file = StrNone
                         THEN @ ELSE PyInt(IntOf(loader.file)),
                      !.hist = Log(@, IF end_of_epoch THEN "load at end of epoch"
                                      ELSE "load")]
    /\ LoaderFrame

\* the experiment is started again: a new SaveableDataLoader, lines 112-115,
\* beside the checkpoint file the old one left
LoaderRestart ==
    /\ loader' = NewLoader(loader.file)
    /\ LoaderFrame

LoaderStep ==
    \/ LoaderIter
    \/ LoaderIterAgain
    \/ LoaderNextItem
    \/ LoaderSave
    \/ LoaderLoad
    \/ LoaderRestart

SpecLoader == LoaderInit /\ [][LoaderStep]_vars



\* --- RegressionContrastiveEnhancement: bind and shuffle ---
\* largest dataset the enhancement is bound to
MaxItems == 3
\* largest metric value of an item, and largest min_delta
MaxMetric == 2

\* metric_values.sort(): the positions of the items in an order of
\* non-decreasing metric; equal values come in either order
SortedOrders(metric) ==
    {p \in [1..Len(metric) -> 1..Len(metric)] :
        /\ \A i, j \in 1..Len(metric) : i # j => p[i] # p[j]
        /\ \A i \in 1..(Len(metric) - 1) : metric[p[i]] <= metric[p[i + 1]]}

\* selection_blocked[r][c]: the sorted values r and c are less than min_delta
\* apart
SelectionBlocked(sorted_vals, min_delta) ==
    [r \in 1..Len(sorted_vals) |->
        [c \in 1..Len(sorted_vals) |->
            Abs(sorted_vals[c] - sorted_vals[r]) < min_delta]]

\* selection_blocked.triu().sum(-1)
MinShiftRight(blocked) ==
    [r \in 1..Len(blocked) |->
        Cardinality({c \in r..Len(blocked) : blocked[r][c]})]

\* selection_blocked.tril().sum(-1)
MinShiftLeft(blocked) ==
    [r \in 1..Len(blocked) |-> Cardinality({c \in 1..r : blocked[r][c]})]

\* torch.cat([indexes_sorted, indexes_sorted.flip(0)[1:], indexes_sorted])
IndexesSortedMirror(indexes_sorted) ==
    indexes_sorted \o Tail(Reverse(indexes_sorted)) \o indexes_sorted

\* (2 * size - 1) - self.min_shift_left - min_shift_right
ShiftMax(size, left, right) ==
    [r \in 1..size |-> (2 * size - 1) - left[r] - right[r]]

\* (shift_max * shift_rel).floor().int() with shift_rel = torch.rand(), a
\* number in [0, 1)
FloorDraws(shift_max) ==
    IF shift_max > 0 THEN 0..(shift_max - 1) ELSE shift_max..0

\* _get_pairings_map: the maps it can return; the item at sorted position r
\* gets the item the mirror holds at position r + shift_abs
PairingsMaps(p) ==
    LET size   == Len(p.metric)
        mirror == IndexesSortedMirror(p.indexes_sorted)
    IN  {pm \in [1..size -> 1..size] :
           \A r \in 1..size :
              \E shift \in FloorDraws(p.shift_max[r]) :
                 LET shift_abs == p.min_shift_left[r] + shift
                 IN  /\ r + shift_abs \in 1..Len(mirror)
                     /\ pm[p.indexes_sorted[r]] = mirror[r + shift_abs]}

PairingFrame ==
    UNCHANGED <<mixVars, cfgVars, selfVars, callVars, parse, build, parked,
                loader, synonyms>>

\* the enhancement is constructed and the dataset has its items
PairingInit ==
    /\ pairing \in {[NoPairing EXCEPT !.pc = "new", !.metric = m,
                                      !.min_delta = d, !.keys_set = ks] :
                      m \in UNION {[1..n -> 0..MaxMetric] : n \in 1..MaxItems},
                      d \in 0..MaxMetric,
                      ks \in BOOLEAN}
    /\ synonyms = NoSynonyms
    /\ parse = NoParse
    /\ build = NoBuild
    /\ parked = NoCall(0)
    /\ loader = NoLoader
    /\ MixUnused
    /\ CfgUnused
    /\ SelfUnused
    /\ CallUnused

\* bind(dataset), lines 48-80
Bind ==
    /\ pairing.pc = "new"
    /\ \E order \in SortedOrders(pairing.metric) :
         LET size    == Len(pairing.metric)
             blocked == SelectionBlocked(Permute(pairing.metric, order),
                                         pairing.min_delta)
             left    == MinShiftLeft(blocked)
             made    == [pairing EXCEPT
                           !.indexes_sorted = order,
                           !.min_shift_left = left,
                           !.shift_max = ShiftMax(size, left,
                                                  MinShiftRight(blocked))]
         IN  \E pm \in PairingsMaps(made) :
               pairing' = IF pairing.keys_set
                          THEN [made EXCEPT !.pc = "bound", !.pairings = pm]
                          ELSE [made EXCEPT !.pc = "raised"]
    /\ PairingFrame

\* shuffle(), lines 101-104
Shuffle ==
    /\ pairing.pc = "bound"
    /\ \E pm \in PairingsMaps(pairing) :
         pairing' = [pairing EXCEPT !.pairings = pm]
    /\ PairingFrame

PairingNext ==
    \/ Bind
    \/ Shuffle

SpecPairing == PairingInit /\ [][PairingNext]_vars

\* --- SynonymDictionary ---
\* number of words the callers know
MaxWords == 4

WordNames == <<"hello", "hi", "say", "speak", "talk", "tell">>

Words == {WordNames[i] : i \in 1..MaxWords}

\* defaultdict.__getitem__(key): a missing key enters the map with set()
Touch(word_map, key) ==
    IF key \in DOMAIN word_map THEN word_map
    ELSE [w \in DOMAIN word_map \cup {key} |->
            IF w = key THEN {} ELSE word_map[w]]

\* for word in word_set: self.word_map[word].update(word_set - {word})
RECURSIVE UpdateAll(_, _, _)
UpdateAll(word_map, todo, word_set) ==
    IF todo = {} THEN word_map
    ELSE LET word == CHOOSE w \in todo : TRUE
             had  == Touch(word_map, word)
         IN  UpdateAll([had EXCEPT ![word] = @ \cup (word_set \ {word})],
                       todo \ {word}, word_set)

SynonymFrame ==
    UNCHANGED <<mixVars, cfgVars, selfVars, callVars, parse, build, parked,
                loader, pairing>>

\* SynonymDictionary()
SynonymInit ==
    /\ synonyms = [NoSynonyms EXCEPT !.op = "__init__"]
    /\ pairing = NoPairing
    /\ parse = NoParse
    /\ build = NoBuild
    /\ parked = NoCall(0)
    /\ loader = NoLoader
    /\ MixUnused
    /\ CfgUnused
    /\ SelfUnused
    /\ CallUnused

\* add_synonym_set(words)
AddSynonymSet ==
    /\ \E word_set \in SUBSET Words :
         synonyms' = [word_map |-> UpdateAll(synonyms.word_map, word_set,
                                             word_set),
                      op |-> "add_synonym_set",
                      result |-> NoResult]
    /\ SynonymFrame

\* __call__(a, b): (a == b) or (b in self.word_map[a]); the lookup of a is
\* made only when a and b differ
SynonymCall ==
    /\ \E a \in Words, b \in Words :
         LET looked == IF a = b THEN synonyms.word_map
                       ELSE Touch(synonyms.word_map, a)
         IN  synonyms' = [word_map |-> looked,
                          op |-> "__call__",
                          result |-> [NoResult EXCEPT
                                        !.truth = a = b \/ b \in looked[a]]]
    /\ SynonymFrame

\* get_synonyms_for(word): self.word_map.get(word, set())
GetSynonymsFor ==
    /\ \E word \in Words :
         synonyms' = [synonyms EXCEPT
                        !.op = "get_synonyms_for",
                        !.result = [NoResult EXCEPT
                                      !.is_set = TRUE,
                                      !.words =
                                         IF word \in DOMAIN synonyms.word_map
                                         THEN synonyms.word_map[word]
                                         ELSE {}]]
    /\ SynonymFrame

SynonymNext ==
    \/ AddSynonymSet
    \/ SynonymCall
    \/ GetSynonymsFor

SpecSynonyms == SynonymInit /\ [][SynonymNext]_vars

\* -------------------------------------------------------------------------
\* Properties of mix (SpecMix)
\* -------------------------------------------------------------------------
MixReturned == mix_pc = "returned"

L1 == Len(mix_src1)

L2 == Len(mix_src2)

\* C2: for any two buffers and any overlap_samples, whatever is drawn, mix
\* returns two padded buffers and a mixture of one common length, and in the
\* partial-overlap case 0 < overlap_samples < min(L1, L2) that length is
\* L1 + L2 - overlap_samples.
C2_MixCommonLength ==
    MixReturned =>
      /\ mix_out.ok
      /\ Len(mix_out.sources[1]) = Len(mix_out.mixture)
      /\ Len(mix_out.sources[2]) = Len(mix_out.mixture)
      /\ (0 < mix_overlap /\ mix_overlap < Min2(L1, L2)
            => Len(mix_out.mixture) = L1 + L2 - mix_overlap)

\* a partial overlap of two buffers of different length has been mixed
C2_Witness ==
    /\ MixReturned
    /\ 0 < mix_overlap /\ mix_overlap < Min2(L1, L2)
    /\ L1 # L2

\* C3: with overlap_samples >= min(L1, L2) the mixture has length
\* max(L1, L2), for every offset drawn, L1 = L2 included.
C3_FullOverlapLength ==
    MixReturned /\ mix_overlap >= Min2(L1, L2) =>
      mix_out.ok /\ Len(mix_out.mixture) = Max2(L1, L2)

\* a full overlap in which the shorter buffer was shifted right
C3_Witness ==
    /\ MixReturned
    /\ mix_overlap >= Min2(L1, L2)
    /\ L1 < L2
    /\ mix_out.paddings[1][1] > 0

\* C4: with overlap_samples <= 0 the mixture has length
\* L1 + L2 + |overlap_samples|, whichever buffer starts first.
C4_NoOverlapLength ==
    MixReturned /\ mix_overlap <= 0 =>
      mix_out.ok /\ Len(mix_out.mixture) = L1 + L2 + Abs(mix_overlap)

\* silence was put between two non-empty buffers, the second one first
C4_Witness ==
    /\ MixReturned
    /\ mix_overlap < 0
    /\ L1 > 0 /\ L2 > 0
    /\ mix_out.paddings[1][1] > 0

\* C5: the padded buffers and the paddings come back in argument order:
\* padded[k] is the k-th argument between paddings[k][1] and paddings[k][2]
\* zeros.
C5_ArgumentOrder ==
    MixReturned =>
      /\ mix_out.sources[1] =
           Zeros(mix_out.paddings[1][1]) \o mix_src1 \o Zeros(mix_out.paddings[1][2])
      /\ mix_out.sources[2] =
           Zeros(mix_out.paddings[2][1]) \o mix_src2 \o Zeros(mix_out.paddings[2][2])

\* the first argument was the longer one (the swapped case) and the two
\* paddings differ
C5_Witness ==
    /\ MixReturned
    /\ L1 >= L2 /\ L2 > 0
    /\ mix_out.paddings[1] # mix_out.paddings[2]

\* the arguments of mix, in order
MixArgs == <<mix_src1, mix_src2>>

\* the positions of the mixture at which argument k lies (not its padding)
Original(k) ==
    {i \in 1..Len(mix_out.mixture) :
       /\ mix_out.paddings[k][1] < i
       /\ i <= mix_out.paddings[k][1] + Len(MixArgs[k])}

\* the argument that starts the mixture, and the one that starts later
StartsFirst == IF mix_out.paddings[1][1] = 0 THEN 1 ELSE 2

StartsLater == 3 - StartsFirst

\* C23: in the partial-overlap case, for either start order, the positions at
\* which both padded buffers hold original samples are exactly
\* overlap_samples many, contiguous, the tail of the buffer that starts first
\* and the head of the other one, and the mixture there is the sum of the two.
C23_OverlapRegion ==
    MixReturned /\ 0 < mix_overlap /\ mix_overlap < Min2(L1, L2) =>
      /\ mix_out.ok
      /\ mix_out.paddings[StartsFirst][1] = 0
      /\ mix_out.paddings[StartsLater][1] > 0
      /\ Cardinality(Original(1) \cap Original(2)) = mix_overlap
      /\ Original(1) \cap Original(2)
           = (Len(MixArgs[StartsFirst]) - mix_overlap + 1)
               .. Len(MixArgs[StartsFirst])
      /\ Original(1) \cap Original(2)
           = (mix_out.paddings[StartsLater][1] + 1)
               .. (mix_out.paddings[StartsLater][1] + mix_overlap)
      /\ \A i \in Original(1) \cap Original(2) :
            mix_out.mixture[i]
              = RAdd(MixArgs[StartsFirst][i],
                     MixArgs[StartsLater][i - mix_out.paddings[StartsLater][1]])

\* three samples against three with an overlap of two, the second argument
\* starting first
C23_Witness ==
    /\ MixReturned
    /\ L1 = 3 /\ L2 = 3
    /\ mix_overlap = 2
    /\ StartsFirst = 2
    /\ Original(1) \cap Original(2) = {2, 3}

\* the shorter argument of mix (the second one when the lengths are equal)
Shorter == IF L1 >= L2 THEN 2 ELSE 1

\* the shorter buffer's paddings, as the call about to be made would return
\* them
ShorterPadding == mix_out.paddings[Shorter]

\* C25: in the full-overlap case with D = |L1 - L2| the longer buffer gets
\* padding (0, 0) and the shorter one (lpad, D - lpad); every lpad of 0..D can
\* be the outcome, D included, and no other; lpad = 0 when D = 0.
C25_LpadRange ==
    /\ (MixReturned /\ mix_overlap >= Min2(L1, L2) =>
          /\ mix_out.paddings[3 - Shorter] = <<0, 0>>
          /\ ShorterPadding[1] \in 0..Abs(L1 - L2)
          /\ ShorterPadding[2] = Abs(L1 - L2) - ShorterPadding[1])
    /\ (mix_pc = "call" /\ mix_overlap >= Min2(L1, L2) =>
          \A lpad \in 0..Abs(L1 - L2) :
             ENABLED (CallMix /\ ShorterPadding' = <<lpad, Abs(L1 - L2) - lpad>>))

\* -------------------------------------------------------------------------
\* Properties of DynamicMixingConfig (SpecConfig)
\* -------------------------------------------------------------------------
\* the length of an argument once a scalar is a one-element list
ArgLen(a) == IF a.tag \in {"int", "real"} THEN 1 ELSE Len(a.v)

LengthMismatch(args) ==
    \/ args.num_spkrs_prob.tag # "None"
         /\ Len(args.num_spkrs_prob.v) # ArgLen(args.num_spkrs)
    \/ args.overlap_prob.tag # "None"
         /\ Len(args.overlap_prob.v) # ArgLen(args.overlap_ratio)

\* C10: a construction with num_spkrs / num_spkrs_prob or overlap_ratio /
\* overlap_prob of different length fails and leaves no config; every config
\* constructed has equal lengths in both pairs, scalars held as one-element
\* lists and omitted probabilities uniform.
C10_ConfigLengths ==
    /\ (cfg_pc # "new" /\ LengthMismatch(cfg_args)
          => cfg_pc = "failed" /\ config = NoConfig)
    /\ (cfg_pc = "constructed" =>
          /\ Len(config.num_spkrs) = Len(config.num_spkrs_prob)
          /\ Len(config.overlap_ratio) = Len(config.overlap_prob)
          /\ (cfg_args.num_spkrs.tag = "int"
                => config.num_spkrs = <<cfg_args.num_spkrs.v[1]>>)
          /\ (cfg_args.overlap_ratio.tag = "real"
                => config.overlap_ratio = <<cfg_args.overlap_ratio.v[1]>>)
          /\ (cfg_args.num_spkrs_prob.tag = "None" =>
                \A i \in 1..Len(config.num_spkrs_prob) :
                   config.num_spkrs_prob[i] = Rat(1, Len(config.num_spkrs)))
          /\ (cfg_args.overlap_prob.tag = "None" =>
                \A i \in 1..Len(config.overlap_prob) :
                   config.overlap_prob[i] = Rat(1, Len(config.overlap_ratio))))

\* a scalar num_spkrs given with a two-entry probability list was refused
C10_Witness ==
    /\ cfg_pc = "failed"
    /\ cfg_args.num_spkrs.tag = "int"
    /\ Len(cfg_args.num_spkrs_prob.v) = 2

RECURSIVE RSum(_)
RSum(xs) == IF xs = <<>> THEN RZero ELSE RAdd(Head(xs), RSum(Tail(xs)))

\* a probability list: no negative entry and the entries sum to 1
IsDistribution(probs) ==
    /\ RSum(probs) = RInt(1)
    /\ \A i \in 1..Len(probs) : RLeq(RZero, probs[i])

\* C11 as stated: every config the construction accepts has num_spkrs_prob
\* and overlap_prob each summing to 1 with no negative entry, explicit lists
\* included.
C11_AcceptedAreDistributions ==
    cfg_pc = "constructed" =>
      /\ IsDistribution(config.num_spkrs_prob)
      /\ IsDistribution(config.overlap_prob)

\* C11: a probability list the caller leaves out is filled in as a
\* distribution (it sums to 1 and has no negative entry) whenever the list it
\* belongs to is not empty; a list the caller supplies is stored as given,
\* only its length having been compared.
C11_OmittedAreDistributions ==
    cfg_pc = "constructed" =>
      /\ (cfg_args.num_spkrs_prob.tag = "None" /\ config.num_spkrs # <<>>
            => IsDistribution(config.num_spkrs_prob))
      /\ (cfg_args.overlap_prob.tag = "None" /\ config.overlap_ratio # <<>>
            => IsDistribution(config.overlap_prob))
      /\ (cfg_args.num_spkrs_prob.tag = "list"
            => config.num_spkrs_prob = cfg_args.num_spkrs_prob.v)
      /\ (cfg_args.overlap_prob.tag = "list"
            => config.overlap_prob = cfg_args.overlap_prob.v)

\* a config was built with both probability lists left out, over four speaker
\* counts and three overlap ratios
C11_Witness ==
    /\ cfg_pc = "constructed"
    /\ cfg_args.num_spkrs_prob.tag = "None"
    /\ cfg_args.overlap_prob.tag = "None"
    /\ Len(config.num_spkrs) = 4
    /\ Len(config.overlap_ratio) = 3


\* -------------------------------------------------------------------------
\* Properties of parse_paths (SpecPaths)
\* -------------------------------------------------------------------------
HasToken(line) == \E i \in 1..Len(line) : line[i] # " "

\* the run of non-whitespace characters that ends at the line's last
\* non-whitespace character
LastToken(line) ==
    LET e == CHOOSE i \in 1..Len(line) :
               /\ line[i] # " "
               /\ \A j \in (i + 1)..Len(line) : line[j] = " "
        b == CHOOSE i \in 1..e :
               /\ \A j \in i..e : line[j] # " "
               /\ (i > 1 => line[i - 1] = " ")
    IN  SubSeq(line, b, e)

\* the substitutions applied one after another in the order given
Substituted(token) ==
    IF Len(parse.replacements) = 0 THEN token
    ELSE IF Len(parse.replacements) = 1
         THEN ReSub(parse.replacements[1][1], parse.replacements[1][2], token)
         ELSE ReSub(parse.replacements[2][1], parse.replacements[2][2],
                    ReSub(parse.replacements[1][1], parse.replacements[1][2], token))

\* C17: parse_paths returns exactly one path per manifest line, in line order,
\* each the last whitespace-delimited token of its line after the
\* substitutions were applied in the order given, each to the output of the
\* one before; the other tokens of a line are ignored.  (It returns whenever
\* every line holds a token.)
C17_OnePathPerLine ==
    /\ (parse.pc \in {"returned", "raised"} =>
          (parse.pc = "returned" <=>
             \A k \in 1..Len(parse.lines) : HasToken(parse.lines[k])))
    /\ (parse.pc = "returned" =>
          /\ Len(parse.out.paths) = Len(parse.lines)
          /\ \A k \in 1..Len(parse.lines) :
                parse.out.paths[k] = Substituted(LastToken(parse.lines[k])))

\* two lines, the first of two tokens with blanks around them, and two
\* substitutions of which the second rewrites what the first produced
C17_Witness ==
    /\ parse.pc = "returned"
    /\ parse.lines = << <<" ", "b", "a", " ">>, <<"x", " ", "a", "b">> >>
    /\ parse.replacements = << <<<<"a">>, <<"b">>>>, <<<<"b">>, <<"c">>>> >>
    /\ parse.out.paths = << <<"c", "c">>, <<"c", "c">> >>


\* -------------------------------------------------------------------------
\* Properties of building a dataset (SpecBuild)
\* -------------------------------------------------------------------------
\* generate has returned
Generated == pc \in {"generated", "done"}

\* from_didataset has made the pool and called the constructor with it
ConstructorCalled == build.pc \in {"constructed", "raised"} /\ build.wav_key # "None"

BuildConfig == PostInit(build.args).config

\* the pool holds fewer distinct speakers than the largest count of the config
TooFewSpeakers ==
    \E i \in 1..Len(BuildConfig.num_spkrs) :
       Len(build.pool) < BuildConfig.num_spkrs[i]

\* nothing of the dataset exists and no request can be made of it
NothingBuilt ==
    /\ build.pc = "raised"
    /\ config = NoConfig
    /\ dataset = NoDataset
    /\ pc = "unused"

\* C12: constructing a dataset whose pool has fewer distinct speakers than
\* max(config.num_spkrs) fails before any state is built, and generate never
\* returns a record whose sampled speaker count exceeds the number of
\* distinct speakers of the pool.
C12_EnoughSpeakers ==
    /\ (ConstructorCalled /\ TooFewSpeakers => NothingBuilt)
    /\ (Generated =>
          /\ mix_info.num_spkrs <= Cardinality(DOMAIN spkr_files)
          /\ mix_info.num_spkrs > 0 =>
               Cardinality({mix_info.speakers[k] : k \in 1..Len(mix_info.speakers)})
                 = mix_info.num_spkrs)

\* a pool of two speakers was refused for a config that may ask for three
C12_Witness ==
    /\ build.pc = "raised"
    /\ build.spkr_key = "spkr"
    /\ Len(build.pool) = 2
    /\ BuildConfig.num_spkrs = <<0, 3>>

\* C13: without a speaker key each file becomes its own singleton speaker
\* whose single pool entry is (path, index): the path alone as the file, and
\* the file's position in the dataset as the index.
C13_SingletonSpeakers ==
    ConstructorCalled /\ build.spkr_key = "None" =>
      /\ Len(build.pool) = Len(build.items)
      /\ \A k \in 1..Len(build.pool) :
            build.pool[k][2] =
              << <<PyStr(build.items[k].wav_file), PyInt(k - 1)>> >>

\* the constructor got as far as resolving the noise list
NoiseListResolved ==
    /\ ConstructorCalled
    /\ build.spkr_key # "None"
    /\ ~TooFewSpeakers
    /\ BuildConfig.plain.noise_add
    /\ ~build.noise_flist.none

\* the constructor got as far as resolving the RIR list
RirListResolved ==
    /\ ConstructorCalled
    /\ build.spkr_key # "None"
    /\ ~TooFewSpeakers
    /\ BuildConfig.plain.noise_add => build.noise_flist.lines # <<>>
    /\ BuildConfig.plain.rir_add
    /\ ~build.rir_flist.none

\* C18 as stated: with noise_add (rir_add) on and an empty list file no
\* dataset is constructed, and parse_paths itself reports the failure rather
\* than returning an empty sequence of paths.
C18_ResolverFails ==
    /\ (NoiseListResolved /\ build.noise_flist.lines = <<>>
          => NothingBuilt /\ ~build.noise_parsed.ok)
    /\ (RirListResolved /\ build.rir_flist.lines = <<>>
          => NothingBuilt /\ ~build.rir_parsed.ok)

\* C18: with noise_add (rir_add) on and an empty list file no dataset is
\* constructed: parse_paths returns an empty sequence of paths without
\* failing, and the constructor refuses the empty sequence.
C18_ConstructorRefusesEmpty ==
    /\ (NoiseListResolved /\ build.noise_flist.lines = <<>>
          => NothingBuilt /\ build.noise_parsed = [ok |-> TRUE, paths |-> <<>>])
    /\ (RirListResolved /\ build.rir_flist.lines = <<>>
          => NothingBuilt /\ build.rir_parsed = [ok |-> TRUE, paths |-> <<>>])
    /\ (build.pc = "constructed" =>
          /\ (config.plain.noise_add => noise_files # <<>>)
          /\ (config.plain.rir_add => rir_files # <<>>))

\* a construction with rir_add on, a good noise list and an empty RIR list
C18_Witness ==
    /\ RirListResolved
    /\ build.rir_flist.lines = <<>>
    /\ BuildConfig.plain.noise_add
    /\ build.noise_parsed.paths = << <<"n">>, <<"m">> >>
    /\ build.pc = "raised"


\* -------------------------------------------------------------------------
\* Properties of interleaved requests (SpecConcurrent)
\* -------------------------------------------------------------------------
\* the running request, as a record like the parked one
Running ==
    [id |-> 3 - parked.id, pc |-> pc, mix_info |-> mix_info, rir |-> rir,
     sources |-> sources, source_idxs |-> source_idxs, mixture |-> mixture,
     padded_sources |-> padded_sources, pre_gain |-> pre_gain, ret |-> ret,
     dct |-> dct]

\* the accumulator of request c holds what c itself has done so far, and
\* nothing else: its speakers, one file and one length per source it loaded,
\* each file one of its speakers', and one overlap entry per source it mixed
OwnEntriesOnly(c) ==
    /\ (c.pc \in {"idle", "failed"} => c.mix_info = NewMixInfo)
    /\ (c.pc \in {"speakers", "zero"} =>
          c.mix_info = [NewMixInfo EXCEPT !.num_spkrs = c.mix_info.num_spkrs])
    /\ (c.pc \in {"rir", "load", "sort", "mix", "post"} =>
          /\ Len(c.mix_info.speakers) = c.mix_info.num_spkrs
          /\ Len(c.mix_info.sources) = Len(c.sources)
          /\ Len(c.mix_info.source_lengths) = Len(c.sources)
          /\ Len(c.source_idxs) = Len(c.sources)
          /\ \A k \in 1..Len(c.mix_info.sources) :
                \E n \in 1..Len(c.mix_info.speakers) :
                   \E j \in 1..Len(spkr_files[c.mix_info.speakers[n]]) :
                      spkr_files[c.mix_info.speakers[n]][j]
                        = <<c.mix_info.sources[k], c.source_idxs[k]>>
          /\ Len(c.mix_info.overlap_ratios_paddings)
               = IF c.padded_sources = <<>> THEN 0
                 ELSE Len(c.padded_sources) - 1)
    /\ (c.pc \in {"generated", "done"} /\ c.mix_info.num_spkrs > 0 =>
          /\ Len(c.mix_info.speakers) = c.mix_info.num_spkrs
          /\ Len(c.mix_info.sources) = c.mix_info.num_spkrs
          /\ Len(c.ret.sources) = c.mix_info.num_spkrs
          /\ Len(c.mix_info.overlap_ratios_paddings) = c.mix_info.num_spkrs - 1
          /\ c.mix_info.data
               = [k \in 1..Len(c.source_idxs) |->
                    dataset.items[c.source_idxs[k] + 1]])
    /\ (c.pc = "done" => c.dct.id[1] = c.mix_info.speakers)

\* C16: when calls of generate on the same dataset are interleaved, each
\* call's metadata accumulator contains only entries produced by that call,
\* and no call writes any field of the dataset.
C16_CallsIsolated ==
    /\ [](OwnEntriesOnly(Running) /\ OwnEntriesOnly(parked))
    /\ [][UNCHANGED selfVars]_vars

\* one request is about to mix two sources while the other has loaded one
\* source of a different speaker
C16_Witness ==
    /\ pc = "mix"
    /\ mix_info.num_spkrs = 2
    /\ parked.pc = "load"
    /\ Len(parked.mix_info.sources) = 1
    /\ parked.mix_info.num_spkrs = 2
    /\ parked.mix_info.sources[1] \notin
         {mix_info.sources[k] : k \in 1..Len(mix_info.sources)}


\* -------------------------------------------------------------------------
\* Properties of SaveableDataLoader (SpecLoader)
\* -------------------------------------------------------------------------
\* the checkpoint file holds a count of batches
CountSaved == loader.file # <<>> /\ loader.file # StrNone

\* the number of batches that had been yielded when the checkpoint was saved
SavedCount == CHOOSE k \in 0..MaxBatches : StrOf(k) = loader.file

\* C20: a checkpoint saved after k batches holds k; loaded (not at end of
\* epoch) into a new loader before it is iterated, it makes the first
\* iterator skip exactly the first k entries of the sampler and report k
\* batches as yielded, and the first item is the one at position k.
C20_ResumeAtK ==
    /\ (loader.hist # <<>> /\ loader.hist[Len(loader.hist)] = "save"
        /\ ~loader.iterator.is_none
          => loader.file = StrOf(loader.iterator.num_yielded))
    /\ (CountSaved /\ loader.hist = <<"load">>
          => /\ loader.skip_to = PyInt(SavedCount)
             /\ loader.iterator.is_none)
    /\ (CountSaved /\ loader.hist = <<"load", "iter">>
          => /\ loader.iterator.sampler_pos = SavedCount
             /\ loader.iterator.num_yielded = SavedCount)
    /\ (CountSaved /\ loader.hist = <<"load", "iter", "next">>
          => /\ loader.item = PyInt(SamplerOrder[SavedCount + 1])
             /\ loader.iterator.num_yielded = SavedCount + 1)

\* a checkpoint saved after ten batches was loaded into a new loader, whose
\* first iterator then yielded its first item
C20_Witness ==
    /\ loader.file = <<"1", "0">>
    /\ loader.hist = <<"load", "iter", "next">>
    /\ loader.item = PyInt(SamplerOrder[11])
    /\ loader.iterator.num_yielded = 11


\* the step is the operation `op`, made while the history still has room
LoaderDoes(op) ==
    /\ Len(loader.hist) < HistLen
    /\ loader'.hist = Append(loader.hist, op)

\* nothing of the loader but its history differs after the step
LoaderUntouched == loader' = [loader EXCEPT !.hist = loader'.hist]

\* C21: loading a checkpoint into a loader that has already entered __iter__
\* changes nothing: the skip position stays as it was and the iterator's
\* position is untouched; likewise a load with end_of_epoch set, or of a
\* checkpoint saved before any iterator existed, changes nothing, so on a new
\* loader the skip position stays unset.
C21_LoadIsNoOp ==
    [][/\ (LoaderDoes("load") /\ ~loader.iterator.is_none => LoaderUntouched)
       /\ (LoaderDoes("load at end of epoch") => LoaderUntouched)
       /\ (LoaderDoes("load") /\ loader.file = StrNone => LoaderUntouched)
       /\ (loader.hist = <<>> /\ loader'.hist = <<"load at end of epoch">>
             => loader'.skip_to = PyNone)
       /\ (loader.hist = <<>> /\ loader'.hist = <<"load">>
           /\ loader.file = StrNone => loader'.skip_to = PyNone)]_vars

\* a checkpoint holding a count was loaded after the loader's iterator had
\* yielded one item
C21_Witness ==
    /\ loader.hist = <<"iter", "next", "load">>
    /\ CountSaved
    /\ SavedCount = 2
    /\ loader.skip_to = PyNone
    /\ loader.iterator.num_yielded = 1


\* C29: recovery is applied exactly once: the first iterator made after a load
\* starts at the skip position, also when it is reset on its first iteration,
\* and sets the skip position back to None; every later iterator of the same
\* loader starts at position 0 with 0 items yielded.
C29_RecoveryOnce ==
    /\ [](~loader.iterator.is_none => loader.skip_to = PyNone)
    /\ [][LoaderDoes("iter") /\ loader.skip_to.tag = "int" =>
            /\ loader'.iterator.sampler_pos = loader.skip_to.i
            /\ loader'.iterator.num_yielded = loader.skip_to.i
            /\ loader'.skip_to = PyNone]_vars
    /\ [][LoaderDoes("iter") /\ ~loader.iterator.is_none =>
            /\ loader'.iterator.sampler_pos = 0
            /\ loader'.iterator.num_yielded = 0
            /\ loader'.skip_to = PyNone]_vars

\* a loader recovered at three batches has made its second iterator
C29_Witness ==
    /\ loader.hist = <<"load", "iter", "iter">>
    /\ CountSaved
    /\ SavedCount = 3
    /\ loader.iterator.sampler_pos = 0
    /\ loader.iterator.num_yielded = 0
    /\ loader.skip_to = PyNone


\* -------------------------------------------------------------------------
\* Properties of a request (Spec)
\* -------------------------------------------------------------------------
Slots == <<dct.s1_sig, dct.s2_sig, dct.s3_sig>>

\* C1: the record has three source buffers, each as long as mix_sig, and the
\* slots beyond the number of mixed speakers are all-zero.
C1_ThreeSlots ==
    pc = "done" /\ mix_info.num_spkrs <= NumSlots =>
      \A k \in 1..NumSlots :
         /\ Len(Slots[k]) = Len(dct.mix_sig)
         /\ (k > mix_info.num_spkrs => IsSilent(Slots[k]))

\* C6: the peak of the returned mixture does not exceed audio_max_amp.
C6_PeakCeiling ==
    /\ (Generated => RLeq(Peak(ret.mixture), config.plain.audio_max_amp))
    /\ (pc = "done" => RLeq(Peak(dct.mix_sig), config.plain.audio_max_amp))

\* a mixture with background noise whose peak was above the ceiling
C6_Witness ==
    /\ pc = "done"
    /\ ~pre_gain.noise.is_none
    /\ RLess(config.plain.audio_max_amp, pre_gain.mix_max_amp)
    /\ Peak(dct.mix_sig) = config.plain.audio_max_amp

\* C7: when the peak before the gain exceeds audio_max_amp, the returned
\* mixture, every returned source and the returned noise are the buffers
\* before the gain times audio_max_amp / peak.
C7_SameGain ==
    pc = "generated" /\ RLess(config.plain.audio_max_amp, pre_gain.mix_max_amp) =>
      LET g == RDiv(config.plain.audio_max_amp, pre_gain.mix_max_amp)
      IN  /\ ret.mixture = Scale(g, pre_gain.mixture)
          /\ Len(ret.sources) = Len(pre_gain.sources)
          /\ \A k \in 1..Len(ret.sources) :
                ret.sources[k] = Scale(g, pre_gain.sources[k])
          /\ ret.noise.is_none = pre_gain.noise.is_none
          /\ ret.noise.buf = Scale(g, pre_gain.noise.buf)

\* C8: with a speaker count of 0 there is no speaker selection, no source
\* loading and no mixing step: the mixture has a length within
\* [min_source_len, max_source_len], speakers is ["no-spkr"], and the source
\* files and the (ratio, paddings) steps are empty.
C8_ZeroSpeakerPath ==
    /\ (pc = "zero" => mix_info = [NewMixInfo EXCEPT !.num_spkrs = 0])
    /\ (Generated /\ mix_info.num_spkrs = 0 =>
          /\ Len(ret.mixture) \in SourceLengths(config)
          /\ mix_info.speakers = <<"no-spkr">>
          /\ mix_info.sources = <<>>
          /\ mix_info.source_lengths = <<>>
          /\ mix_info.overlap_ratios_paddings = <<>>
          /\ mix_info.rir = "None"
          /\ source_idxs = <<>>
          /\ padded_sources = <<>>)

\* the zero-speaker path has returned, with background noise added
C8_Witness ==
    /\ pc = "generated"
    /\ mix_info.num_spkrs = 0
    /\ mix_info.noise # "None"

\* C9: after every mixing step all padded sources accumulated so far are as
\* long as the running mixture, and the returned sources as long as the
\* returned mixture.
C9_PaddedLengths ==
    /\ (pc \in {"mix", "post"} =>
          \A k \in 1..Len(padded_sources) :
             Len(padded_sources[k]) = Len(mixture))
    /\ (Generated /\ mix_info.num_spkrs >= 1 =>
          /\ Len(ret.sources) = mix_info.num_spkrs
          /\ \A k \in 1..Len(ret.sources) :
                Len(ret.sources[k]) = Len(ret.mixture))

\* three sources are mixed; the running mixture was padded on its right in
\* the first step and on its left in the second
C9_Witness ==
    /\ pc = "post"
    /\ Len(padded_sources) = 3
    /\ mix_info.overlap_ratios_paddings[1][2][2][2] > 0
    /\ mix_info.overlap_ratios_paddings[2][2][2][1] > 0

\* the position in the bound dataset that the pool stores next to `file`
PoolIndexOf(file) ==
    CHOOSE idx \in 0..(Len(dataset.items) - 1) :
      \E spkr \in DOMAIN spkr_files :
        \E j \in 1..Len(spkr_files[spkr]) : spkr_files[spkr][j] = <<file, idx>>

\* C14: with a bound dataset and at least one speaker mixed, `data` holds one
\* dataset entry per selected source, the k-th being the dataset record whose
\* index the pool stores next to the k-th source file of the metadata, in the
\* order the sources have after the longest-first sort.
C14_DataFollowsSources ==
    Generated /\ dataset.bound /\ mix_info.num_spkrs >= 1 =>
      /\ Len(mix_info.data) = mix_info.num_spkrs
      /\ Len(mix_info.sources) = mix_info.num_spkrs
      /\ \A k \in 1..mix_info.num_spkrs :
            mix_info.data[k] = dataset.items[PoolIndexOf(mix_info.sources[k]) + 1]
      /\ (pc = "done" => dct.data = mix_info.data)

\* spk3 was drawn before spk1 and the sort put the longer a1.wav first
C14_Witness ==
    /\ pc = "done"
    /\ mix_info.speakers = <<"spk3", "spk1">>
    /\ mix_info.sources = <<"a1.wav", "c.wav">>
    /\ dct.data[1].wav_file = "a1.wav"
    /\ dct.data[2].wav_file = "c.wav"

\* C15: when a request fails at any step no record is returned, the locals of
\* the failed request are gone, and the pool, the noise and RIR lists, the
\* config and the bound dataset are as they were; the next request starts
\* from the state the failed one started from.
C15_FailureLeavesNoTrace ==
    /\ [][UNCHANGED selfVars]_vars
    /\ [][pc' = "failed" =>
            /\ ret' = NoRet /\ dct' = NoDct /\ mix_info' = NewMixInfo
            /\ sources' = <<>> /\ source_idxs' = <<>> /\ rir' = NoTensor]_vars
    /\ [][pc = "failed" /\ pc' # pc =>
            /\ pc' = "idle"
            /\ <<mix_info, rir, sources, source_idxs, mixture, padded_sources,
                 pre_gain, ret, dct>>'
                 = <<NewMixInfo, NoTensor, <<>>, <<>>, <<>>, <<>>, NoPre, NoRet,
                     NoDct>>]_vars

\* a request failed on a dataset with noise and RIR files of the wrong rate
C15_Witness ==
    /\ pc = "failed"
    /\ config.plain.rir_add
    /\ config.plain.noise_add

\* the noise file's samples, as long as the file is
NoisePeriod == Len(FileAudio(mix_info.noise))

\* C19: the noise buffer of the returned record is exactly as long as the
\* mixture: a sampled noise file is repeated and cut to the mixture's length
\* whatever its own length, and without noise the buffer is all-zero.
C19_NoiseLength ==
    pc = "done" =>
      /\ Len(dct.noise_sig) = Len(dct.mix_sig)
      /\ (mix_info.noise = "None" => IsSilent(dct.noise_sig))
      /\ (mix_info.noise # "None" =>
            /\ dct.noise_sig = ret.noise.buf
            /\ \A i \in 1..Len(dct.noise_sig) :
                  i > NoisePeriod => dct.noise_sig[i] = dct.noise_sig[i - NoisePeriod])

\* the two-sample noise file under a mixture of three samples
C19_Witness ==
    /\ pc = "done"
    /\ mix_info.noise = "n.wav"
    /\ Len(dct.mix_sig) = 3
    /\ Len(dct.noise_sig) = 3

\* the element-wise sum of the buffers `bufs`, each n samples long
RECURSIVE SumOfBuffers(_, _)
SumOfBuffers(bufs, n) ==
    IF bufs = <<>> THEN Zeros(n)
    ELSE VAdd(Head(bufs), SumOfBuffers(Tail(bufs), n))

\* buf is src with silence before and after it
IsPaddingOf(buf, src) ==
    \E lpad \in 0..(Len(buf) - Len(src)) :
       buf = PadOne(src, <<lpad, Len(buf) - Len(src) - lpad>>)

\* C24: while N >= 1 sources are mixed one after the other, and before
\* post-processing, the running mixture is at every sample position the sum
\* of the padded sources accumulated so far, and the k-th padded source is
\* the k-th source with silence around it.
C24_MixtureIsSum ==
    pc \in {"mix", "post"} =>
      /\ Len(padded_sources) >= 1
      /\ mixture = SumOfBuffers(padded_sources, Len(mixture))
      /\ \A k \in 1..Len(padded_sources) :
            IsPaddingOf(padded_sources[k], sources[k])

\* three sources are mixed: the second overlaps the first in part, and the
\* third step pads the running mixture on its left
C24_Witness ==
    /\ pc = "post"
    /\ Len(padded_sources) = 3
    /\ mix_info.overlap_ratios_paddings[1][1] = Rat(1, 2)
    /\ mix_info.overlap_ratios_paddings[2][2][2][1] > 0
    /\ \E i \in 1..Len(mixture) :
          /\ padded_sources[1][i] # RZero
          /\ padded_sources[2][i] # RZero

\* C26: with a speaker count of 0 the three source slots of the record are
\* all-zero, also when background noise or dither was added to the mixture.
C26_SilentSlots ==
    pc = "done" /\ mix_info.num_spkrs = 0 =>
      \A k \in 1..NumSlots : IsSilent(Slots[k])

\* C27: the length recorded in source_lengths for a source is the number of
\* samples of its truncated buffer and lies within [min_source_len,
\* max_source_len], whatever the length of the file; after the longest-first
\* sort source_lengths is in non-increasing order.
C27_RecordedLengths ==
    /\ (pc \in {"load", "sort", "mix", "post", "generated", "done"}
           /\ mix_info.num_spkrs >= 1 =>
          /\ Len(mix_info.source_lengths) = Len(sources)
          /\ \A k \in 1..Len(sources) :
                /\ mix_info.source_lengths[k] = Len(sources[k])
                /\ mix_info.source_lengths[k] \in SourceLengths(config))
    /\ (pc \in {"mix", "post", "generated", "done"} =>
          \A k \in 1..(Len(mix_info.source_lengths) - 1) :
             mix_info.source_lengths[k] >= mix_info.source_lengths[k + 1])

\* the speaker whose pool holds `file`
SpeakerOf(file) ==
    CHOOSE spkr \in DOMAIN spkr_files :
      \E j \in 1..Len(spkr_files[spkr]) : spkr_files[spkr][j][1] = file

\* C28: in the metadata of a mixture of N >= 2 speakers the per-source lists
\* are aligned after the longest-first sort: the k-th source file belongs to
\* the k-th speaker.
C28_AlignedLists ==
    Generated /\ mix_info.num_spkrs >= 2 =>
      /\ Len(mix_info.sources) = Len(mix_info.speakers)
      /\ \A k \in 1..Len(mix_info.sources) :
            SpeakerOf(mix_info.sources[k]) = mix_info.speakers[k]

\* -------------------------------------------------------------------------
\* Properties of RegressionContrastiveEnhancement (SpecPairing)
\* -------------------------------------------------------------------------
MetricDistance(i, j) == Abs(pairing.metric[j] - pairing.metric[i])

\* C22: after bind and after any number of shuffles, every item (that has an
\* item at least min_delta away at all) is paired with an item whose metric
\* value is at least min_delta away from its own; with min_delta > 0 it is
\* not paired with itself.
C22_PairedFarEnough ==
    pairing.pc = "bound" =>
      \A i \in 1..Len(pairing.metric) :
         (\E j \in 1..Len(pairing.metric) :
             MetricDistance(i, j) >= pairing.min_delta) =>
           MetricDistance(i, pairing.pairings[i]) >= pairing.min_delta

\* -------------------------------------------------------------------------
\* Properties of SynonymDictionary (SpecSynonyms)
\* -------------------------------------------------------------------------
\* C30: calling the dictionary on two words and get_synonyms_for leave
\* word_map as it was, its keys and its synonym sets, also for words the
\* dictionary does not know.
C30_LookupsLeaveMap ==
    [][synonyms'.op \in {"__call__", "get_synonyms_for"} =>
         synonyms'.word_map = synonyms.word_map]_vars


=============================================================================
